---- MODULE Spec2Model ----
(***************************************************************************)
(* Model of the ScanPage capture surface (src/unnamed/part_001): the live  *)
(* quality sampler, the quality aggregator, the auto-capture countdown     *)
(* machine and the camera-stream lifecycle.                                *)
(*                                                                         *)
(* Units.  brightness, sharpness, coverage and noseRatio are hundredths    *)
(* (0..100 stands for 0..1).  score is kept exactly, in units of 1/110000: *)
(*   0.45*sharpness + 0.35*brightCentered + 0.20*sizeScore                 *)
(*     = (495*s + 700*bc55 + 1100*sz20) / 110000                           *)
(* with s in hundredths, bc55 = brightCentered in 55ths, sz20 = sizeScore  *)
(* in 20ths.  Times are milliseconds.                                      *)
(*                                                                         *)
(* React.  A component state is a record c.  An action is one handler or   *)
(* callback together with the render it causes: the effects of a render    *)
(* run with the state of that render (their closure) and the live value of *)
(* every ref, and the updates they make cause a further render, until      *)
(* nothing changes (Settle).  React batches the updates of callbacks that  *)
(* run before it renders: a callback may run together with the countdown   *)
(* timeout that is due (parameter tick), and both updates reach one render.*)
(***************************************************************************)
EXTENDS Integers, Sequences, FiniteSets, TLC

VARIABLES
  step,                 \* useState(0): 0 Preparation, 1 Scan, 2 Questions, 3 Results
  cameraOn,             \* useState(false)
  autoCapture,          \* useState(false)
  autoCountdown,        \* useState<number | null>(null)
  captures,             \* useState<CaptureItem[]>([])
  scanQuality,          \* useState({score, brightness, sharpness, faceCoverage, pose, warnings})
  meshStatus,           \* useState('idle')
  streamRef,            \* useRef<MediaStream | null>
  latestFaceRef,        \* useRef({found, coverage, noseRatio})
  sinceAutoCapture,     \* Date.now() - lastAutoCaptureAtRef.current, kept up to Elapsed
  lastCapturedPoseRef,  \* useRef('unknown')
  videoSrc,             \* srcObject of the mounted <video>, NoStream when none
  liveStreams,          \* streams whose tracks have not been stopped
  streamCount,          \* streams handed out by getUserMedia so far
  pendingGUM,           \* getUserMedia calls not yet settled
  playPending,          \* a video.play() promise is not yet settled
  encodings,            \* captureFromCamera calls awaiting canvas.toBlob
  timerLeft,            \* ms until the pending countdown setTimeout is due, NoTimer when none
  meshRun,              \* the live-landmarker effect run of the current cameraOn value
  staleInits,           \* init() calls of cleaned-up effect runs still awaiting the model
  landmarker,           \* faceLandmarkerRef.current is set
  mounted,              \* the component is mounted
  liveUrls,             \* object URLs created and not revoked
  result,               \* an analysis result is held
  resultImage,          \* the <img> of the selected frame: none, loading, loaded
  overlayFocus,         \* the concern the map is focused on
  concernMapStatus,     \* idle, loading, ready, error
  resultOverlay,        \* what the concern-map canvas shows: blank, map
  mapPass,              \* where the active renderConcernMap stands: none, model, heat
  staleMaps,            \* renderConcernMap passes pending after their cleanup
  stillLandmarker,      \* stillLandmarkerRef holds a landmarker
  overlay,              \* what the live overlay canvas shows
  heatData,             \* the live loop holds a heatmap buffer
  sinceHeat,            \* ms since lastHeatAt of the live loop, saturating
  uncaught,             \* an exception left a callback of the page
  aggIn,                \* a frame handed to the quality aggregator on its own
  aggOut,               \* what the sampler publishes and captureFromCamera records for it
  layoutIn,             \* a column of callouts handed to placeColumn on its own
  layoutOut,            \* the top edge (by) of each box it draws
  anchorIn,             \* a downsampled heatmap image handed to heatmapAnchor on its own
  anchorOut,            \* the anchor it returns
  frameIn,              \* a video frame and its landmarks handed to the sampler on their own
  frameOut,             \* the quality sample published for them
  drawIn,               \* an analysis and a focus handed to the concern-map renderer
  drawOut,              \* what the renderer draws for them
  history,              \* localStorage['skinsense.history.v1'], parsed
  run                   \* a call of runAnalysis: where it stands and what it has set

vars == <<step, cameraOn, autoCapture, autoCountdown, captures, scanQuality,
          meshStatus, streamRef, latestFaceRef, sinceAutoCapture,
          lastCapturedPoseRef, videoSrc, liveStreams, streamCount, pendingGUM,
          playPending, encodings, timerLeft, meshRun, staleInits, landmarker,
          mounted, liveUrls, result, resultImage, overlayFocus, concernMapStatus,
          resultOverlay, mapPass, staleMaps, stillLandmarker, overlay, heatData,
          sinceHeat, uncaught, aggIn, aggOut, layoutIn, layoutOut, anchorIn, anchorOut,
          frameIn, frameOut, drawIn, drawOut, history, run>>

\* the state of the page itself
pageVars == <<step, cameraOn, autoCapture, autoCountdown, captures, scanQuality,
              meshStatus, streamRef, latestFaceRef, sinceAutoCapture,
              lastCapturedPoseRef, videoSrc, liveStreams, streamCount, pendingGUM,
              playPending, encodings, timerLeft, meshRun, staleInits, landmarker,
              mounted, liveUrls, result, resultImage, overlayFocus, concernMapStatus,
              resultOverlay, mapPass, staleMaps, stillLandmarker, overlay, heatData,
              sinceHeat, uncaught>>

\* the object URLs of the capture items and the concern map of the results step
mapVars == <<liveUrls, result, resultImage, overlayFocus, concernMapStatus, resultOverlay,
             mapPass, staleMaps, stillLandmarker>>

\* the live overlay loop
loopVars == <<overlay, heatData, sinceHeat, uncaught>>

\* the sampler's clamps and the drawing of the concern map
drawVars == <<frameIn, frameOut, drawIn, drawOut>>

\* the stored history and the analysis run that saves to it
storeVars == <<history, run>>

\* the inputs and outputs of the pure computations, and the store
pureVars == <<layoutIn, layoutOut, anchorIn, anchorOut, drawVars, storeVars>>

-----------------------------------------------------------------------------
(* Bounds of the model *)

MaxCaptures == 4     \* longest capture list explored
MaxFiles == 2        \* most files of one upload
MaxStreams == 2      \* getUserMedia calls explored
MaxEncodings == 1    \* concurrent toBlob encodings
MaxStale == 1        \* superseded init() calls still pending
GridSteps == 10      \* subdivisions of [0,1] for the aggregator's inputs
TimeStep == 500      \* ms per clock advance

\* ms per clock advance between two frames of the live loop
FrameStep == 125

\* callouts in one column
MaxCallouts == 3

\* anchors of a column lie on a grid of this many pixels
AnchorStep == 20

\* width and height of the downsampled heatmap image (tw, th)
ImgW == 3

ImgH == 3

\* heights of the overlay canvas: one where three boxes fit and two where they do not
CanvasHeights == {80, 100, 160}

(* Program constants *)

Null == -1                 \* autoCountdown === null
NoStream == 0              \* streamRef.current === null
NoTimer == -1              \* no countdown timeout pending
MaxItems == 3              \* captures.length >= 3
CountdownStart == 3        \* setAutoCountdown(3)
CountdownMs == 1000        \* window.setTimeout(..., 1000)
CooldownMs == 2500         \* Date.now() - lastAutoCaptureAtRef.current > 2500
GoodScore == 85800         \* score >= 0.78, in 1/110000
PoseLeftBelow == 46        \* noseRatio < 0.46
PoseRightAbove == 54       \* noseRatio > 0.54
BrightCenter == 55         \* |brightness - 0.55| / 0.55
SizeFull == 20             \* faceCoverage / 0.2
LowLight == 25             \* brightness < 0.25
StrongLight == 88          \* brightness > 0.88
Soft == 25                 \* sharpness < 0.25
SmallFace == 8             \* faceCoverage < 0.08

\* the live heatmap is recomputed when more than this many ms have passed
HeatThrottle == 250

\* the heatmap is composited for a face covering more than 0.06 of the frame
HeatCoverage == 6

\* height of a callout box, the gap between two boxes, the canvas margin
BoxH == 28

Gap == 8

Margin == 10

\* the primary threshold of the heatmap centroid is at least this alpha
MinThresh == 40

\* the centroid reads every second pixel of every second row
CentroidStep == 2

\* sharpness = variance / 800
HistoryCap == 25           \* .slice(0, 25)
SharpDivisor == 800

\* a top concern has severity >= 12
TopSeverity == 12

\* fewer top concerns than 3 are filled up to 3
TopFew == 3

\* at most 6 top concerns
TopMost == 6

\* the alpha of a spot is at most 0.85, in 1/100000
SpotCap == 85000

-----------------------------------------------------------------------------
(* Pure functions *)

\* every elapsed time above the cooldown behaves alike: the clock stops there
Elapsed == CooldownMs + TimeStep

\* the saturated value of sinceHeat: more than the throttle ago, or never
HeatElapsed == HeatThrottle + FrameStep

Max2(a, b) == IF a >= b THEN a ELSE b
Min2(a, b) == IF a <= b THEN a ELSE b
Abs(a) == IF a >= 0 THEN a ELSE -a

NoFace == [found |-> FALSE, coverage |-> 0, noseRatio |-> 50]

\* the pose expression of the quality sampler
SamplerPose(face) ==
  IF face.found /\ face.coverage > 0
    THEN IF face.noseRatio < PoseLeftBelow THEN "left"
         ELSE IF face.noseRatio > PoseRightAbove THEN "right"
         ELSE "front"
    ELSE "unknown"

\* captureFromCamera with the lower boundary counted as left (fault)
CapturePoseBoundaryLeft(face) ==
  IF face.found /\ face.coverage > 0
    THEN IF face.noseRatio <= PoseLeftBelow THEN "left"
         ELSE IF face.noseRatio > PoseRightAbove THEN "right"
         ELSE "front"
    ELSE "unknown"

\* the pose expression of captureFromCamera
CapturePose(face) ==
  IF face.found /\ face.coverage > 0
    THEN IF face.noseRatio < PoseLeftBelow THEN "left"
         ELSE IF face.noseRatio > PoseRightAbove THEN "right"
         ELSE "front"
    ELSE "unknown"

\* brightCentered in 55ths: max(0, min(1, 1 - |b - 0.55| / 0.55))
BrightCentered(brightness) ==
  Max2(0, Min2(BrightCenter, BrightCenter - Abs(brightness - BrightCenter)))

\* sizeScore without the cap at 1 (fault)
SizeScoreUncapped(faceCoverage) == faceCoverage

\* sizeScore in 20ths: min(1, faceCoverage / 0.2)
SizeScore(faceCoverage) == Min2(SizeFull, faceCoverage)

\* the weighted sum without the found guard (fault)
ScoreUnguarded(face, brightness, sharpness) ==
  495 * sharpness + 700 * BrightCentered(brightness) + 1100 * SizeScore(face.coverage)

\* score in 1/110000
Score(face, brightness, sharpness) ==
  IF face.found
    THEN 495 * sharpness + 700 * BrightCentered(brightness)
           + 1100 * SizeScore(face.coverage)
    ELSE 0

Push(cond, w, ws) == IF cond THEN Append(ws, w) ELSE ws

\* the warnings as an else-if chain: only the first condition is reported (fault)
WarningsFirstOnly(face, brightness, sharpness) ==
  IF brightness < LowLight THEN <<"low_light">>
  ELSE IF brightness > StrongLight THEN <<"strong_light">>
  ELSE IF sharpness < Soft THEN <<"blurry">>
  ELSE IF ~face.found THEN <<"no_face">>
  ELSE IF face.coverage < SmallFace THEN <<"too_small">>
  ELSE <<>>

Warnings(face, brightness, sharpness) ==
  LET w1 == Push(brightness < LowLight, "low_light", <<>>)
      w2 == Push(brightness > StrongLight, "strong_light", w1)
      w3 == Push(sharpness < Soft, "blurry", w2)
      w4 == Push(~face.found, "no_face", w3)
  IN  Push(face.found /\ face.coverage < SmallFace, "too_small", w4)

\* the object handed to setScanQuality by a sampler tick
QualitySample(face, brightness, sharpness) ==
  [score |-> Score(face, brightness, sharpness),
   brightness |-> brightness,
   sharpness |-> sharpness,
   faceCoverage |-> face.coverage,
   pose |-> SamplerPose(face),
   warnings |-> Warnings(face, brightness, sharpness)]

\* the object of the initial state and of the sampler effect when the surface is off
ResetQuality ==
  [score |-> 0, brightness |-> 0, sharpness |-> 0, faceCoverage |-> 0,
   pose |-> "unknown", warnings |-> <<>>]

-----------------------------------------------------------------------------
(* The component as a record: React state, then refs and environment *)

Snap ==
  [step |-> step, cameraOn |-> cameraOn, autoCapture |-> autoCapture,
   autoCountdown |-> autoCountdown, captures |-> captures,
   scanQuality |-> scanQuality, meshStatus |-> meshStatus,
   streamRef |-> streamRef, latestFaceRef |-> latestFaceRef,
   sinceAutoCapture |-> sinceAutoCapture,
   lastCapturedPoseRef |-> lastCapturedPoseRef, videoSrc |-> videoSrc,
   liveStreams |-> liveStreams, playPending |-> playPending,
   encodings |-> encodings, timerLeft |-> timerLeft, meshRun |-> meshRun,
   staleInits |-> staleInits, landmarker |-> landmarker,
   overlay |-> overlay, heatData |-> heatData, sinceHeat |-> sinceHeat,
   result |-> result, resultImage |-> resultImage, overlayFocus |-> overlayFocus,
   concernMapStatus |-> concernMapStatus, resultOverlay |-> resultOverlay,
   mapPass |-> mapPass, staleMaps |-> staleMaps,
   stillLandmarker |-> stillLandmarker, liveUrls |-> liveUrls]

\* the <video> element is rendered: {step === 1 && ... {cameraOn && <video ref={videoRef}>}}
VideoMounted(c) == c.step = 1 /\ c.cameraOn

\* the <img> and the <canvas> of the concern map are rendered: step === 3 with
\* a selected capture of the result
ImageMounted(c) == c.step = 3 /\ c.result

\* React state of two renders is the same (no re-render is needed)
SameState(a, b) ==
  /\ a.step = b.step
  /\ a.cameraOn = b.cameraOn
  /\ a.autoCapture = b.autoCapture
  /\ a.autoCountdown = b.autoCountdown
  /\ a.captures = b.captures
  /\ a.scanQuality = b.scanQuality
  /\ a.meshStatus = b.meshStatus
  /\ a.result = b.result
  /\ a.overlayFocus = b.overlayFocus
  /\ a.concernMapStatus = b.concernMapStatus

\* the synchronous part of captureFromCamera: read the pose, draw, call toBlob
BeginCapture(c, auto) ==
  IF ~VideoMounted(c) THEN c
  ELSE [c EXCEPT !.encodings =
          Append(@, [pose |-> CapturePose(c.latestFaceRef), auto |-> auto])]

\* forEach((c) => URL.revokeObjectURL(c.url)) over the capture list
RevokeAll(c) == [c EXCEPT !.liveUrls = @ - Len(c.captures)]

\* stop every track of streamRef.current and drop the reference
ReleaseStream(c) ==
  IF c.streamRef = NoStream THEN c
  ELSE [c EXCEPT !.liveStreams = @ \ {c.streamRef}, !.streamRef = NoStream]

-----------------------------------------------------------------------------
(* Effects.  prev: the previous render, cur: this render (the closure),    *)
(* acc: cur with the refs as they are now and the updates made so far.     *)

\* commit: an element that is no longer rendered is removed
CommitDom(cur, acc) ==
  LET a == IF VideoMounted(cur) THEN acc ELSE [acc EXCEPT !.videoSrc = NoStream]
  IN  IF ~ImageMounted(cur)
        THEN [a EXCEPT !.resultImage = "none", !.resultOverlay = "blank"]
      ELSE IF a.resultImage = "none" THEN [a EXCEPT !.resultImage = "loading"]
      ELSE a

\* useEffect(..., [cameraOn, step]): attach the stream to the video
EffVideo(prev, cur, acc) ==
  IF prev.cameraOn = cur.cameraOn /\ prev.step = cur.step THEN acc
  ELSE IF ~cur.cameraOn THEN [acc EXCEPT !.videoSrc = NoStream]
  ELSE IF ~VideoMounted(cur) \/ acc.streamRef = NoStream THEN acc
  ELSE [acc EXCEPT !.videoSrc = acc.streamRef, !.playPending = TRUE]

\* cleanup of the live-landmarker effect: active = false, cancelAnimationFrame
MeshCleanup(acc) ==
  [acc EXCEPT !.staleInits = IF acc.meshRun = "init" THEN @ + 1 ELSE @,
              !.meshRun = "none",
              !.overlay = "clear", !.heatData = FALSE, !.sinceHeat = HeatElapsed]

\* useEffect(..., [accentRgb, cameraOn, primaryRgb]): the live landmarker
EffMesh(prev, cur, acc) ==
  IF prev.cameraOn = cur.cameraOn THEN acc
  ELSE LET a == MeshCleanup(acc) IN
       IF ~cur.cameraOn THEN [a EXCEPT !.meshStatus = "idle", !.overlay = "clear"]
       ELSE IF ~a.landmarker
         THEN [a EXCEPT !.meshStatus = "loading", !.meshRun = "init"]
       ELSE [a EXCEPT !.meshStatus = "ready",
                      !.meshRun = IF VideoMounted(cur) THEN "loop" ELSE "done"]

\* useEffect(..., [result?.analysis_id]): a new result resets the focus and the status
EffResult(prev, cur, acc) ==
  IF prev.result = cur.result \/ ~cur.result THEN acc
  ELSE [acc EXCEPT !.overlayFocus = "top", !.concernMapStatus = "idle"]

\* cleanup of the concern-map effect: active = false
MapCleanup(acc) ==
  [acc EXCEPT !.staleMaps = IF acc.mapPass # "none" THEN @ + 1 ELSE @,
              !.mapPass = "none"]

\* the dependencies of the concern-map effect changed (resultImageTick changes
\* when the image fires onLoad)
MapDeps(prev, cur) ==
  \/ prev.step # cur.step
  \/ prev.result # cur.result
  \/ prev.overlayFocus # cur.overlayFocus
  \/ prev.resultImage # "loaded" /\ cur.resultImage = "loaded"

\* the concern-map effect starting a pass on an image that has not loaded (fault)
EffMapUnloaded(prev, cur, acc) ==
  IF ~MapDeps(prev, cur) THEN acc
  ELSE LET a == MapCleanup(acc) IN
       IF cur.step # 3 \/ ~cur.result THEN [a EXCEPT !.concernMapStatus = "idle"]
       ELSE [a EXCEPT !.concernMapStatus = "loading", !.mapPass = "model"]

\* useEffect(..., [accentRgb, overlayFocus, primaryRgb, result, resultImageTick,
\* step, topConcernMetrics]): the concern map, up to the first await of
\* renderConcernMap
EffMap(prev, cur, acc) ==
  IF ~MapDeps(prev, cur) THEN acc
  ELSE LET a == MapCleanup(acc) IN
       IF cur.step # 3 \/ ~cur.result THEN [a EXCEPT !.concernMapStatus = "idle"]
       ELSE IF a.resultImage # "loaded" THEN a
       ELSE [a EXCEPT !.concernMapStatus = "loading", !.mapPass = "model"]

\* the sampler effect runs and takes its reset branch (a fresh scanQuality object)
SamplerResets(prev, cur) ==
  /\ prev.cameraOn # cur.cameraOn \/ prev.step # cur.step
  /\ ~cur.cameraOn \/ cur.step # 1

\* useEffect(..., [cameraOn, step]): the quality sampler; its interval exists
\* exactly while cameraOn && step === 1 (SamplerActive)
EffSampler(prev, cur, acc) ==
  IF SamplerResets(prev, cur)
    THEN [acc EXCEPT !.scanQuality = ResetQuality, !.autoCountdown = Null]
    ELSE acc

EntryDeps(prev, cur, qset) ==
  \/ prev.autoCapture # cur.autoCapture
  \/ prev.autoCountdown # cur.autoCountdown
  \/ prev.cameraOn # cur.cameraOn
  \/ Len(prev.captures) # Len(cur.captures)
  \/ prev.scanQuality.score # cur.scanQuality.score
  \/ qset
  \/ prev.step # cur.step

Good(q) == q.score >= GoodScore /\ Len(q.warnings) = 0

SamePose(q, last) == q.pose # "unknown" /\ q.pose = last

\* the entry effect without the pose rule (fault)
EffEntryNoPoseRule(prev, cur, acc, qset) ==
  IF ~EntryDeps(prev, cur, qset) THEN acc
  ELSE IF ~cur.autoCapture \/ ~cur.cameraOn \/ cur.step # 1
    THEN [acc EXCEPT !.autoCountdown = Null]
  ELSE IF Len(cur.captures) >= MaxItems
    THEN [acc EXCEPT !.autoCountdown = Null]
  ELSE IF ~Good(cur.scanQuality)
    THEN [acc EXCEPT !.autoCountdown = Null]
  ELSE IF cur.autoCountdown = Null /\ acc.sinceAutoCapture > CooldownMs
    THEN [acc EXCEPT !.autoCountdown = CountdownStart]
  ELSE acc

\* the entry effect without the cooldown test (fault)
EffEntryNoCooldown(prev, cur, acc, qset) ==
  IF ~EntryDeps(prev, cur, qset) THEN acc
  ELSE IF ~cur.autoCapture \/ ~cur.cameraOn \/ cur.step # 1
    THEN [acc EXCEPT !.autoCountdown = Null]
  ELSE IF Len(cur.captures) >= MaxItems
    THEN [acc EXCEPT !.autoCountdown = Null]
  ELSE IF ~Good(cur.scanQuality)
    THEN [acc EXCEPT !.autoCountdown = Null]
  ELSE IF SamePose(cur.scanQuality, acc.lastCapturedPoseRef)
    THEN [acc EXCEPT !.autoCountdown = Null]
  ELSE IF cur.autoCountdown = Null
    THEN [acc EXCEPT !.autoCountdown = CountdownStart]
  ELSE acc

\* the entry effect without the 3-item budget (fault)
EffEntryNoBudget(prev, cur, acc, qset) ==
  IF ~EntryDeps(prev, cur, qset) THEN acc
  ELSE IF ~cur.autoCapture \/ ~cur.cameraOn \/ cur.step # 1
    THEN [acc EXCEPT !.autoCountdown = Null]
  ELSE IF ~Good(cur.scanQuality)
    THEN [acc EXCEPT !.autoCountdown = Null]
  ELSE IF SamePose(cur.scanQuality, acc.lastCapturedPoseRef)
    THEN [acc EXCEPT !.autoCountdown = Null]
  ELSE IF cur.autoCountdown = Null /\ acc.sinceAutoCapture > CooldownMs
    THEN [acc EXCEPT !.autoCountdown = CountdownStart]
  ELSE acc

\* the entry effect that keeps counting when the quality drops (fault)
EffEntryKeepsCounting(prev, cur, acc, qset) ==
  IF ~EntryDeps(prev, cur, qset) THEN acc
  ELSE IF ~cur.autoCapture \/ ~cur.cameraOn \/ cur.step # 1
    THEN [acc EXCEPT !.autoCountdown = Null]
  ELSE IF Len(cur.captures) >= MaxItems
    THEN [acc EXCEPT !.autoCountdown = Null]
  ELSE IF ~Good(cur.scanQuality)
    THEN acc
  ELSE IF SamePose(cur.scanQuality, acc.lastCapturedPoseRef)
    THEN [acc EXCEPT !.autoCountdown = Null]
  ELSE IF cur.autoCountdown = Null /\ acc.sinceAutoCapture > CooldownMs
    THEN [acc EXCEPT !.autoCountdown = CountdownStart]
  ELSE acc

\* useEffect: abort or start the countdown
EffEntry(prev, cur, acc, qset) ==
  IF ~EntryDeps(prev, cur, qset) THEN acc
  ELSE IF ~cur.autoCapture \/ ~cur.cameraOn \/ cur.step # 1
    THEN [acc EXCEPT !.autoCountdown = Null]
  ELSE IF Len(cur.captures) >= MaxItems
    THEN [acc EXCEPT !.autoCountdown = Null]
  ELSE IF ~Good(cur.scanQuality)
    THEN [acc EXCEPT !.autoCountdown = Null]
  ELSE IF SamePose(cur.scanQuality, acc.lastCapturedPoseRef)
    THEN [acc EXCEPT !.autoCountdown = Null]
  ELSE IF cur.autoCountdown = Null /\ acc.sinceAutoCapture > CooldownMs
    THEN [acc EXCEPT !.autoCountdown = CountdownStart]
  ELSE acc

\* the tick effect that arms no timeout (fault)
EffTickNeverArms(prev, cur, acc) ==
  IF prev.autoCountdown = cur.autoCountdown THEN acc
  ELSE [acc EXCEPT !.timerLeft = NoTimer]

\* the tick effect without its cleanup: the timeout is never cleared (fault)
EffTickNeverClears(prev, cur, acc) ==
  IF prev.autoCountdown = cur.autoCountdown THEN acc
  ELSE IF cur.autoCountdown = Null \/ cur.autoCountdown <= 0 THEN acc
  ELSE [acc EXCEPT !.timerLeft = CountdownMs]

\* useEffect(..., [autoCountdown]): one timeout per positive countdown value
EffTick(prev, cur, acc) ==
  IF prev.autoCountdown = cur.autoCountdown THEN acc
  ELSE IF cur.autoCountdown = Null \/ cur.autoCountdown <= 0
    THEN [acc EXCEPT !.timerLeft = NoTimer]
  ELSE [acc EXCEPT !.timerLeft = CountdownMs]

\* the zero effect without the re-validation (fault)
EffZeroUnchecked(prev, cur, acc, qset) ==
  IF ~(EntryDeps(prev, cur, qset) \/ prev.scanQuality.pose # cur.scanQuality.pose)
    THEN acc
  ELSE IF cur.autoCountdown # 0 THEN acc
  ELSE BeginCapture([acc EXCEPT !.sinceAutoCapture = 0,
                                !.autoCountdown = Null], TRUE)

\* the zero effect that captures and leaves the countdown at 0 (fault)
EffZeroStaysZero(prev, cur, acc, qset) ==
  IF ~(EntryDeps(prev, cur, qset) \/ prev.scanQuality.pose # cur.scanQuality.pose)
    THEN acc
  ELSE IF cur.autoCountdown # 0 THEN acc
  ELSE IF ~cur.autoCapture \/ ~cur.cameraOn \/ cur.step # 1
          \/ Len(cur.captures) >= MaxItems
    THEN [acc EXCEPT !.autoCountdown = Null]
  ELSE IF ~Good(cur.scanQuality)
    THEN [acc EXCEPT !.autoCountdown = Null]
  ELSE IF SamePose(cur.scanQuality, acc.lastCapturedPoseRef)
    THEN [acc EXCEPT !.autoCountdown = Null]
  ELSE BeginCapture([acc EXCEPT !.sinceAutoCapture = 0], TRUE)

\* useEffect: the countdown reached zero
EffZero(prev, cur, acc, qset) ==
  IF ~(EntryDeps(prev, cur, qset) \/ prev.scanQuality.pose # cur.scanQuality.pose)
    THEN acc
  ELSE IF cur.autoCountdown # 0 THEN acc
  ELSE IF ~cur.autoCapture \/ ~cur.cameraOn \/ cur.step # 1
          \/ Len(cur.captures) >= MaxItems
    THEN [acc EXCEPT !.autoCountdown = Null]
  ELSE IF ~Good(cur.scanQuality)
    THEN [acc EXCEPT !.autoCountdown = Null]
  ELSE IF SamePose(cur.scanQuality, acc.lastCapturedPoseRef)
    THEN [acc EXCEPT !.autoCountdown = Null]
  ELSE BeginCapture([acc EXCEPT !.sinceAutoCapture = 0,
                                !.autoCountdown = Null], TRUE)

\* the effects of one render, in the order of their declaration
RunEffects(prev, cur, qset) ==
  LET a0 == CommitDom(cur, cur)
      a1 == EffVideo(prev, cur, a0)
      a2 == EffMesh(prev, cur, a1)
      b1 == EffResult(prev, cur, a2)
      b2 == EffMap(prev, cur, b1)
      a3 == EffSampler(prev, cur, b2)
      a4 == EffEntry(prev, cur, a3, qset)
      a5 == EffTick(prev, cur, a4)
  IN  EffZero(prev, cur, a5, qset)

\* render, run the effects, and render again while they changed the state
RECURSIVE Settle(_, _, _)
Settle(prev, cur, qset) ==
  LET acc == RunEffects(prev, cur, qset)
      q2 == SamplerResets(prev, cur)
  IN  IF SameState(acc, cur) /\ ~q2 THEN acc
      ELSE Settle(cur, acc, q2)

-----------------------------------------------------------------------------
(* Inputs *)

\* FaceObservations the render loop can publish: coverage > 0 whenever found
Faces ==
  {NoFace} \cup
  {[found |-> TRUE, coverage |-> 25, noseRatio |-> n] : n \in {40, 50}}

\* the focus of the concern map: the top concerns or one metric
Focuses == {"top", "metric"}

\* outcomes of a concern-map pass up to the landmarks
Outcomes == {"fail", "throw", "none", "face"}

\* (brightness, sharpness) of a sampled frame: good, soft without warning, dark
Frames == {<<55, 90>>, <<55, 30>>, <<20, 90>>}

-----------------------------------------------------------------------------
(* Rendering *)

\* the component after a render of c and its effects
Commit(r) ==
  /\ Len(r.captures) <= MaxCaptures
  /\ Len(r.encodings) <= MaxEncodings
  /\ r.staleInits <= MaxStale
  /\ r.staleMaps <= MaxStale
  /\ step' = r.step
  /\ cameraOn' = r.cameraOn
  /\ autoCapture' = r.autoCapture
  /\ autoCountdown' = r.autoCountdown
  /\ captures' = r.captures
  /\ scanQuality' = r.scanQuality
  /\ meshStatus' = r.meshStatus
  /\ streamRef' = r.streamRef
  /\ latestFaceRef' = r.latestFaceRef
  /\ sinceAutoCapture' = r.sinceAutoCapture
  /\ lastCapturedPoseRef' = r.lastCapturedPoseRef
  /\ videoSrc' = r.videoSrc
  /\ liveStreams' = r.liveStreams
  /\ playPending' = r.playPending
  /\ encodings' = r.encodings
  /\ timerLeft' = r.timerLeft
  /\ meshRun' = r.meshRun
  /\ staleInits' = r.staleInits
  /\ landmarker' = r.landmarker
  /\ overlay' = r.overlay
  /\ heatData' = r.heatData
  /\ sinceHeat' = r.sinceHeat
  /\ result' = r.result
  /\ resultImage' = r.resultImage
  /\ overlayFocus' = r.overlayFocus
  /\ concernMapStatus' = r.concernMapStatus
  /\ resultOverlay' = r.resultOverlay
  /\ mapPass' = r.mapPass
  /\ staleMaps' = r.staleMaps
  /\ stillLandmarker' = r.stillLandmarker
  /\ liveUrls' = r.liveUrls

\* the mounted component rendered and its effects ran, giving r
Rendered(r) ==
  /\ mounted
  /\ Commit(r)
  /\ UNCHANGED <<streamCount, pendingGUM, mounted, uncaught, aggIn, aggOut, pureVars>>

\* a click handler changed the component from Snap to c: render synchronously
Handle(c) == Rendered(Settle(Snap, c, FALSE))

\* the countdown timeout is due
TimerReady == mounted /\ timerLeft = 0

\* the timeout's callback: setAutoCountdown((v) => (v === null ? null : v - 1))
Dec(c) ==
  [c EXCEPT !.timerLeft = NoTimer,
            !.autoCountdown = IF @ = Null THEN Null ELSE @ - 1]

\* what is left of an unmounted component: its state is gone, the promises it
\* started are still pending and the streams it did not stop are still live
Gone(c) ==
  [c EXCEPT !.step = 0, !.cameraOn = FALSE, !.autoCapture = FALSE,
            !.autoCountdown = Null, !.captures = <<>>,
            !.scanQuality = ResetQuality, !.meshStatus = "idle",
            !.latestFaceRef = NoFace, !.lastCapturedPoseRef = "unknown",
            !.sinceAutoCapture = Elapsed, !.videoSrc = NoStream,
            !.timerLeft = NoTimer, !.landmarker = FALSE,
            !.overlay = "clear", !.heatData = FALSE, !.sinceHeat = HeatElapsed,
            !.result = FALSE, !.resultImage = "none", !.overlayFocus = "top",
            !.concernMapStatus = "idle", !.resultOverlay = "blank",
            !.mapPass = "none", !.stillLandmarker = FALSE]

\* a callback wrote refs (giving cRef) and called state setters (giving cSet);
\* with tick, the due countdown timeout ran before React rendered.  The setters
\* of an unmounted component do nothing.
Callback(cRef, cSet, qset, tick) ==
  /\ tick => TimerReady
  /\ IF mounted
       THEN Commit(Settle(Snap, IF tick THEN Dec(cSet) ELSE cSet, qset))
       ELSE Commit(Gone(cRef))
  /\ UNCHANGED <<mounted, uncaught, aggIn, aggOut, pureVars>>

\* stopCamera()
StopCameraIn(c) ==
  [ReleaseStream(c) EXCEPT !.videoSrc = NoStream, !.cameraOn = FALSE]

-----------------------------------------------------------------------------
(* Click handlers *)

\* "Start scan" and "Next": if (step === 1) stopCamera(); setStep(min(2, s + 1))
NavNext ==
  /\ step \in {0, 1}
  /\ step = 1 => Len(captures) > 0
  /\ Handle([(IF step = 1 THEN StopCameraIn(Snap) ELSE Snap) EXCEPT !.step = step + 1])

\* "Back": if (step === 1) stopCamera(); setStep(max(0, s - 1))
NavBack ==
  /\ step = 1
  /\ Handle([StopCameraIn(Snap) EXCEPT !.step = 0])

\* runAnalysis(): setResult(null), then setResult(res) when analyzeSkin
\* resolved (ok), and on every path setStep(3)
RunAnalysis(ok) ==
  /\ step = 2
  /\ Len(captures) > 0
  /\ LET r1 == Settle(Snap, [Snap EXCEPT !.result = FALSE], FALSE)
         r2 == Settle(r1, [r1 EXCEPT !.result = ok], FALSE)
     IN  Rendered(Settle(r2, [r2 EXCEPT !.step = 3], FALSE))

\* "Retake scan" (setStep(1)) and "Back to questions" (setStep(2))
GoToStep(s) ==
  /\ step = 3
  /\ s \in {1, 2}
  /\ Handle([Snap EXCEPT !.step = s])

\* resetAll()
ResetAll ==
  /\ step = 3
  /\ Handle([StopCameraIn(RevokeAll(Snap)) EXCEPT
              !.captures = <<>>, !.result = FALSE, !.step = 0])

\* startCamera(): await getUserMedia
StartCamera ==
  /\ mounted
  /\ step = 1
  /\ ~cameraOn
  /\ streamCount + pendingGUM < MaxStreams
  /\ pendingGUM' = pendingGUM + 1
  /\ UNCHANGED <<step, cameraOn, autoCapture, autoCountdown, captures, scanQuality,
                 meshStatus, streamRef, latestFaceRef, sinceAutoCapture,
                 lastCapturedPoseRef, videoSrc, liveStreams, streamCount,
                 playPending, encodings, timerLeft, meshRun, staleInits, landmarker,
                 mounted, mapVars, loopVars, aggIn, aggOut, pureVars>>

\* stopCamera()
StopCamera ==
  /\ step = 1
  /\ cameraOn
  /\ Handle(StopCameraIn(Snap))

\* the "Capture" button: captureFromCamera()
ManualCapture ==
  /\ step = 1
  /\ cameraOn
  /\ Handle(BeginCapture(Snap, FALSE))

\* the auto-capture checkbox: setAutoCapture(e.target.checked)
SetAutoCapture ==
  /\ step = 1
  /\ cameraOn
  /\ Handle([Snap EXCEPT !.autoCapture = ~autoCapture])

\* an uploaded file: { id, blob: f, url, pose: 'unknown' }
FileItem == [pose |-> "unknown"]

\* addFiles(files)
AddFiles(k) ==
  /\ step = 1
  /\ Handle([Snap EXCEPT !.captures = @ \o [i \in 1..k |-> FileItem],
                         !.liveUrls = @ + k])

\* removeCapture(id)
RemoveCapture(i) ==
  /\ step = 1
  /\ i \in 1..Len(captures)
  /\ Handle([Snap EXCEPT !.captures =
                           SubSeq(captures, 1, i - 1) \o SubSeq(captures, i + 1, Len(captures)),
                         !.liveUrls = @ - 1])

\* "Clear": captures.forEach(revoke); setCaptures([])
ClearCaptures ==
  /\ step = 1
  /\ Len(captures) > 0
  /\ Handle([RevokeAll(Snap) EXCEPT !.captures = <<>>])

\* the component unmounts: every effect cleanup runs (clearInterval, clearTimeout,
\* active = false, landmarker.close(), stop the tracks of streamRef.current)
Unmount ==
  /\ mounted
  /\ mounted' = FALSE
  /\ Commit(Gone(MapCleanup(MeshCleanup(ReleaseStream(RevokeAll(Snap))))))
  /\ UNCHANGED <<streamCount, pendingGUM, uncaught, aggIn, aggOut, pureVars>>

-----------------------------------------------------------------------------
(* Callbacks of timers, promises and animation frames *)

SamplerActive == mounted /\ cameraOn /\ step = 1

\* getUserMedia resolved: streamRef.current = stream; setCameraOn(true)
GumResolve(tick) ==
  /\ pendingGUM > 0
  /\ pendingGUM' = pendingGUM - 1
  /\ streamCount' = streamCount + 1
  /\ LET cRef == [Snap EXCEPT !.streamRef = streamCount + 1,
                              !.liveStreams = @ \cup {streamCount + 1}]
     IN  Callback(cRef, [cRef EXCEPT !.cameraOn = TRUE], FALSE, tick)

\* getUserMedia rejected: setCameraOn(false)
GumReject(tick) ==
  /\ pendingGUM > 0
  /\ pendingGUM' = pendingGUM - 1
  /\ Callback(Snap, [Snap EXCEPT !.cameraOn = FALSE], FALSE, tick)
  /\ UNCHANGED streamCount

\* video.play() rejected: setCameraOn(false); stop the tracks of streamRef.current
PlayReject(tick) ==
  /\ playPending
  /\ LET cRef == [ReleaseStream(Snap) EXCEPT !.playPending = FALSE]
     IN  Callback(cRef, [cRef EXCEPT !.cameraOn = FALSE], FALSE, tick)
  /\ UNCHANGED <<streamCount, pendingGUM>>

\* video.play() resolved
PlayResolve ==
  /\ playPending
  /\ playPending' = FALSE
  /\ UNCHANGED <<step, cameraOn, autoCapture, autoCountdown, captures, scanQuality,
                 meshStatus, streamRef, latestFaceRef, sinceAutoCapture,
                 lastCapturedPoseRef, videoSrc, liveStreams, streamCount,
                 pendingGUM, encodings, timerLeft, meshRun, staleInits, landmarker,
                 mounted, mapVars, loopVars, aggIn, aggOut, pureVars>>

\* the pass without the throttle (fault)
HeatDueEveryFrame == TRUE

\* the heatmap is computed in this pass: now - lastHeatAt > 250
HeatDue == sinceHeat > HeatThrottle

\* the overlay after a pass that found a face: the mesh, under it the heatmap
\* when a buffer is held and strength > 0
Drawn(face, held) ==
  IF held /\ face.coverage > HeatCoverage THEN "heat" ELSE "mesh"

\* the overlay after a pass when the buffer held is composited without a
\* face (fault)
DrawnHeldHeat(face, held) ==
  IF face.found THEN Drawn(face, held)
  ELSE IF held THEN "heat" ELSE "clear"

\* the overlay after a pass
Overlay(face, held) ==
  IF face.found THEN Drawn(face, held) ELSE "clear"

\* one pass of render() in the animation-frame loop with a new video frame;
\* detectForVideo returns the landmarks of `face` or throws
RenderFrame(face, throws) ==
  /\ mounted
  /\ meshRun = "loop"
  /\ landmarker
  /\ videoSrc # NoStream
  /\ IF throws
       THEN /\ overlay' = "clear"
            /\ meshRun' = "crashed"
            /\ uncaught' = TRUE
            /\ UNCHANGED <<latestFaceRef, heatData, sinceHeat>>
       ELSE /\ latestFaceRef' = IF face.found THEN face ELSE NoFace
            /\ sinceHeat' = IF face.found /\ HeatDue THEN 0 ELSE sinceHeat
            /\ heatData' = (heatData \/ (face.found /\ HeatDue))
            /\ overlay' = Overlay(face, heatData')
            /\ UNCHANGED <<meshRun, uncaught>>
  /\ UNCHANGED <<step, cameraOn, autoCapture, autoCountdown, captures, scanQuality,
                 meshStatus, streamRef, sinceAutoCapture, lastCapturedPoseRef,
                 videoSrc, liveStreams, streamCount, pendingGUM, playPending,
                 encodings, timerLeft, staleInits, landmarker, mounted, mapVars,
                 aggIn, aggOut, pureVars>>

\* the sampler's setInterval callback
SamplerTick(frame, tick) ==
  /\ SamplerActive
  /\ videoSrc # NoStream
  /\ Callback(Snap,
              [Snap EXCEPT !.scanQuality =
                 QualitySample(latestFaceRef, frame[1], frame[2])],
              TRUE, tick)
  /\ UNCHANGED <<streamCount, pendingGUM>>

\* the countdown's setTimeout callback alone
CountdownTimer ==
  /\ Callback(Snap, Snap, FALSE, TRUE)
  /\ UNCHANGED <<streamCount, pendingGUM>>

\* init() of the current effect run finishes loading the model
InitDone(ok, tick) ==
  /\ meshRun = "init"
  /\ LET cRef == [Snap EXCEPT
                    !.landmarker = (@ \/ ok),
                    !.meshRun = IF ok /\ VideoMounted(Snap) THEN "loop" ELSE "done"]
     IN  Callback(cRef,
                  [cRef EXCEPT !.meshStatus = IF ok THEN "ready" ELSE "error"],
                  FALSE, tick)
  /\ UNCHANGED <<streamCount, pendingGUM>>

\* init() of a cleaned-up effect run finishes: its render() returns at !active
StaleInitDone(ok, tick) ==
  /\ staleInits > 0
  /\ LET cRef == [Snap EXCEPT !.landmarker = (@ \/ ok), !.staleInits = @ - 1]
     IN  Callback(cRef,
                  [cRef EXCEPT !.meshStatus = IF ok THEN "ready" ELSE "error"],
                  FALSE, tick)
  /\ UNCHANGED <<streamCount, pendingGUM>>

\* a chip of the concern map: setOverlayFocus
SetOverlayFocus(f) ==
  /\ ImageMounted(Snap)
  /\ Handle([Snap EXCEPT !.overlayFocus = f])

\* onLoad of the result image: setResultImageTick((v) => v + 1)
ImageLoaded ==
  /\ resultImage = "loading"
  /\ Callback([Snap EXCEPT !.resultImage = "loaded"],
              [Snap EXCEPT !.resultImage = "loaded"], FALSE, FALSE)
  /\ UNCHANGED <<streamCount, pendingGUM>>

\* the pass that goes on drawing the map when no landmarks were found (fault)
DetectedUnchecked(c, outcome) ==
  IF outcome \in {"fail", "throw"}
    THEN [c EXCEPT !.concernMapStatus = "error", !.mapPass = "none"]
  ELSE [c EXCEPT !.resultOverlay = "blank", !.mapPass = "heat"]

\* what detect(imgEl) and the lines after it leave for an outcome of the pass:
\* the model did not load ("fail"), detect threw ("throw"), no landmarks
\* ("none"), landmarks ("face")
Detected(c, outcome) ==
  IF outcome \in {"fail", "throw"}
    THEN [c EXCEPT !.concernMapStatus = "error", !.mapPass = "none"]
  ELSE IF outcome = "none"
    THEN [c EXCEPT !.resultOverlay = "blank", !.concernMapStatus = "error",
                   !.mapPass = "none"]
  ELSE [c EXCEPT !.resultOverlay = "blank", !.mapPass = "heat"]

\* renderConcernMap of the active pass after await ensureLandmarker()
MapModelDone(outcome) ==
  /\ mapPass = "model"
  /\ outcome = "fail" => ~stillLandmarker
  /\ LET cRef == [Snap EXCEPT !.stillLandmarker = (@ \/ outcome # "fail")]
     IN  Callback(cRef, Detected(cRef, outcome), FALSE, FALSE)
  /\ UNCHANGED <<streamCount, pendingGUM>>

\* renderConcernMap of the active pass after the heatmap images settled: the
\* map is drawn
MapHeatDone ==
  /\ mapPass = "heat"
  /\ Callback(Snap,
              [Snap EXCEPT !.resultOverlay = "map", !.concernMapStatus = "ready",
                           !.mapPass = "none"], FALSE, FALSE)
  /\ UNCHANGED <<streamCount, pendingGUM>>

\* a superseded pass that goes on without testing active (fault)
SupersededUnchecked(c, ok) ==
  IF ok THEN [c EXCEPT !.resultOverlay = "map", !.concernMapStatus = "ready"]
  ELSE [c EXCEPT !.concernMapStatus = "error"]

\* what a superseded pass does when its await settles: if (!active) return,
\* after the await and in the catch
Superseded(c, ok) == c

\* a pass whose effect was cleaned up resumes
StaleMapDone(ok) ==
  /\ staleMaps > 0
  /\ LET cRef == [Snap EXCEPT !.staleMaps = @ - 1, !.stillLandmarker = (@ \/ ok)]
     IN  Callback(cRef, Superseded(cRef, ok), FALSE, FALSE)
  /\ UNCHANGED <<streamCount, pendingGUM>>

Without(seq, i) == SubSeq(seq, 1, i - 1) \o SubSeq(seq, i + 1, Len(seq))

\* a camera capture: { id, blob, url, pose }
CaptureItem(e) == [pose |-> e.pose]

\* canvas.toBlob called back: url = URL.createObjectURL(blob);
\* lastCapturedPoseRef.current = pose; setCaptures(append)
BlobResolve(i, ok, tick) ==
  /\ i \in 1..Len(encodings)
  /\ LET gone == [Snap EXCEPT !.encodings = Without(@, i)]
         cRef == [gone EXCEPT !.lastCapturedPoseRef = encodings[i].pose,
                              !.liveUrls = @ + 1]
     IN  IF ok
           THEN Callback(cRef,
                         [cRef EXCEPT !.captures = Append(@, CaptureItem(encodings[i]))],
                         FALSE, tick)
           ELSE Callback(gone, gone, FALSE, tick)
  /\ UNCHANGED <<streamCount, pendingGUM>>

\* time passes, while a deadline depends on it
AdvanceBy(d) ==
  /\ timerLeft > 0 \/ sinceAutoCapture < Elapsed \/ sinceHeat < HeatElapsed
  /\ timerLeft' = IF timerLeft = NoTimer THEN NoTimer ELSE Max2(0, timerLeft - d)
  /\ sinceAutoCapture' = Min2(Elapsed, sinceAutoCapture + d)
  /\ sinceHeat' = Min2(HeatElapsed, sinceHeat + d)
  /\ UNCHANGED <<step, cameraOn, autoCapture, autoCountdown, captures, scanQuality,
                 meshStatus, streamRef, latestFaceRef, lastCapturedPoseRef, videoSrc,
                 liveStreams, streamCount, pendingGUM, playPending, encodings,
                 meshRun, staleInits, landmarker, mounted, mapVars, overlay,
                 heatData, uncaught, aggIn, aggOut, pureVars>>

\* time passes between two sampler ticks
Advance == AdvanceBy(TimeStep)

\* time passes between two animation frames
NextFrameTime == AdvanceBy(FrameStep)

-----------------------------------------------------------------------------
(* Specification of the capture surface *)

NoInput == [face |-> NoFace, brightness |-> 0, sharpness |-> 0]

NoOutput == [done |-> FALSE, quality |-> ResetQuality, capturePose |-> "unknown"]

InitPage ==
  /\ step = 0
  /\ cameraOn = FALSE
  /\ autoCapture = FALSE
  /\ autoCountdown = Null
  /\ captures = <<>>
  /\ scanQuality = ResetQuality
  /\ meshStatus = "idle"
  /\ streamRef = NoStream
  /\ latestFaceRef = NoFace
  /\ sinceAutoCapture = Elapsed
  /\ lastCapturedPoseRef = "unknown"
  /\ videoSrc = NoStream
  /\ liveStreams = {}
  /\ streamCount = 0
  /\ pendingGUM = 0
  /\ playPending = FALSE
  /\ encodings = <<>>
  /\ timerLeft = NoTimer
  /\ meshRun = "none"
  /\ staleInits = 0
  /\ landmarker = FALSE
  /\ mounted = TRUE
  /\ overlay = "clear"
  /\ heatData = FALSE
  /\ sinceHeat = HeatElapsed
  /\ uncaught = FALSE
  /\ result = FALSE
  /\ resultImage = "none"
  /\ overlayFocus = "top"
  /\ concernMapStatus = "idle"
  /\ resultOverlay = "blank"
  /\ mapPass = "none"
  /\ staleMaps = 0
  /\ stillLandmarker = FALSE
  /\ liveUrls = 0

\* nothing handed to the aggregator
IdleAgg ==
  /\ aggIn = NoInput
  /\ aggOut = NoOutput

\* no column handed to placeColumn
NoColumn == [height |-> 0, ys |-> <<>>]

NoBoxes == [done |-> FALSE, by |-> <<>>]

IdleLayout ==
  /\ layoutIn = NoColumn
  /\ layoutOut = NoBoxes

\* no image handed to heatmapAnchor
NoImage == <<>>

\* the null returned by centroid and by heatmapAnchor
NullPoint == [some |-> FALSE, sum |-> 0, sumX2 |-> 0, sumY2 |-> 0]

NoAnchor == [done |-> FALSE, anchor |-> NullPoint]

IdleAnchor ==
  /\ anchorIn = NoImage
  /\ anchorOut = NoAnchor

\* no frame handed to the sampler's clamps
NoFrame == [luma |-> 0, variance |-> 0, box |-> [found |-> FALSE, area |-> 0, nose |-> 50]]

NoSample == [done |-> FALSE, quality |-> ResetQuality]

IdleFrame ==
  /\ frameIn = NoFrame
  /\ frameOut = NoSample

\* no analysis handed to the renderer
NoAnalysis == [metrics |-> <<>>, focus |-> "top"]

NoDrawing ==
  [done |-> FALSE, active |-> <<>>, weight |-> <<>>, heat |-> {}, glow |-> {},
   callout |-> {}]

IdleDraw ==
  /\ drawIn = NoAnalysis
  /\ drawOut = NoDrawing

\* no analysis run under way: useState(false), useState(null), useState(null), step 2
NoRun ==
  [phase |-> "idle", loading |-> FALSE, error |-> FALSE, result |-> 0, step |-> 2,
   events |-> <<>>, embedded |-> FALSE]

\* an empty store and no run
IdleStore ==
  /\ history = <<>>
  /\ run = NoRun

Init ==
  /\ InitPage
  /\ IdleAgg
  /\ IdleLayout
  /\ IdleAnchor
  /\ IdleStore
  /\ IdleFrame
  /\ IdleDraw

\* every handler and callback of the page
Next ==
  \/ NavNext
  \/ NavBack
  \/ \E ok \in BOOLEAN : RunAnalysis(ok)
  \/ \E s \in {1, 2} : GoToStep(s)
  \/ ResetAll
  \/ StartCamera
  \/ StopCamera
  \/ ManualCapture
  \/ SetAutoCapture
  \/ \E k \in 1..MaxFiles : AddFiles(k)
  \/ \E i \in 1..MaxCaptures : RemoveCapture(i)
  \/ ClearCaptures
  \/ Unmount
  \/ \E tick \in BOOLEAN : GumResolve(tick)
  \/ \E tick \in BOOLEAN : GumReject(tick)
  \/ \E tick \in BOOLEAN : PlayReject(tick)
  \/ PlayResolve
  \/ \E face \in Faces, throws \in BOOLEAN : RenderFrame(face, throws)
  \/ \E frame \in Frames, tick \in BOOLEAN : SamplerTick(frame, tick)
  \/ CountdownTimer
  \/ \E ok \in BOOLEAN, tick \in BOOLEAN : InitDone(ok, tick)
  \/ \E ok \in BOOLEAN, tick \in BOOLEAN : StaleInitDone(ok, tick)
  \/ \E i \in 1..MaxEncodings, ok \in BOOLEAN, tick \in BOOLEAN : BlobResolve(i, ok, tick)
  \/ \E f \in Focuses : SetOverlayFocus(f)
  \/ ImageLoaded
  \/ \E outcome \in Outcomes : MapModelDone(outcome)
  \/ MapHeatDone
  \/ \E ok \in BOOLEAN : StaleMapDone(ok)
  \/ Advance
  \/ NextFrameTime

Spec == Init /\ [][Next]_vars

\* The auto-capture machine during one camera session: the camera is started
\* once, the Capture button is pressed while a countdown runs, files are
\* uploaded two at a time, and every way of ending the session is explored.
NextAuto ==
  \/ NavNext
  \/ NavBack
  \/ StartCamera /\ streamCount + pendingGUM = 0
  \/ StopCamera
  \/ ManualCapture /\ autoCountdown # Null
  \/ SetAutoCapture
  \/ AddFiles(MaxFiles)
  \/ Unmount
  \/ \E tick \in BOOLEAN : GumResolve(tick)
  \/ \E tick \in BOOLEAN : PlayReject(tick)
  \/ \E face \in Faces : RenderFrame(face, FALSE)
  \/ \E frame \in Frames, tick \in BOOLEAN : SamplerTick(frame, tick)
  \/ CountdownTimer
  \/ \E tick \in BOOLEAN : InitDone(TRUE, tick)
  \/ \E i \in 1..MaxEncodings, ok \in BOOLEAN, tick \in BOOLEAN : BlobResolve(i, ok, tick)
  \/ Advance

SpecAuto == Init /\ [][NextAuto]_vars

FrontFace == [found |-> TRUE, coverage |-> 25, noseRatio |-> 50]

\* The camera sessions of the page: starting, stopping and restarting the
\* camera, every navigation, the model load and the unmount, with one good
\* frame so that the sampler, the countdown and the capture run.
NextCam ==
  \/ NavNext
  \/ NavBack
  \/ RunAnalysis(FALSE)
  \/ \E s \in {1, 2} : GoToStep(s)
  \/ ResetAll
  \/ StartCamera
  \/ StopCamera
  \/ SetAutoCapture
  \/ AddFiles(1)
  \/ Unmount
  \/ \E tick \in BOOLEAN : GumResolve(tick)
  \/ \E tick \in BOOLEAN : GumReject(tick)
  \/ \E tick \in BOOLEAN : PlayReject(tick)
  \/ PlayResolve
  \/ \E face \in {NoFace, FrontFace} : RenderFrame(face, FALSE)
  \/ \E tick \in BOOLEAN : SamplerTick(<<55, 90>>, tick)
  \/ CountdownTimer
  \/ \E ok \in BOOLEAN, tick \in BOOLEAN : InitDone(ok, tick)
  \/ \E ok \in BOOLEAN, tick \in BOOLEAN : StaleInitDone(ok, tick)
  \/ \E ok \in BOOLEAN, tick \in BOOLEAN : BlobResolve(1, ok, tick)
  \/ Advance

SpecCam == Init /\ [][NextCam]_vars

\* a face too small for the heatmap: strength = 0
SmallFarFace == [found |-> TRUE, coverage |-> 5, noseRatio |-> 50]

\* The live overlay loop at the rate of the animation frames: the camera
\* starts and stops, the model loads or fails to, and each pass finds a face,
\* a small face or none, or its detection throws.
NextLoop ==
  \/ NavNext
  \/ NavBack
  \/ StartCamera
  \/ StopCamera
  \/ Unmount
  \/ GumResolve(FALSE)
  \/ GumReject(FALSE)
  \/ \E ok \in BOOLEAN : InitDone(ok, FALSE)
  \/ \E ok \in BOOLEAN : StaleInitDone(ok, FALSE)
  \/ \E face \in {NoFace, FrontFace, SmallFarFace}, throws \in BOOLEAN :
       RenderFrame(face, throws)
  \/ NextFrameTime

SpecLoop == Init /\ [][NextLoop]_vars

\* The results step: files are uploaded, analysed and analysed again, the
\* selected image loads, the focus of the map changes, and each pass of the
\* concern map meets a model that fails to load, a detection that throws, an
\* image without landmarks or a face.
NextMap ==
  \/ NavNext
  \/ NavBack
  \/ AddFiles(1)
  \/ \E ok \in BOOLEAN : RunAnalysis(ok)
  \/ \E s \in {1, 2} : GoToStep(s)
  \/ ResetAll
  \/ Unmount
  \/ \E f \in Focuses : SetOverlayFocus(f)
  \/ ImageLoaded
  \/ \E outcome \in Outcomes : MapModelDone(outcome)
  \/ MapHeatDone
  \/ \E ok \in BOOLEAN : StaleMapDone(ok)

SpecMap == Init /\ [][NextMap]_vars

\* The capture list: files are uploaded, frames are captured by hand, items
\* are removed, the list is cleared, the page is reset or unmounted, and the
\* encoding of a frame finishes at any of these moments.
NextList ==
  \/ NavNext
  \/ NavBack
  \/ RunAnalysis(FALSE)
  \/ ResetAll
  \/ StartCamera
  \/ StopCamera
  \/ GumResolve(FALSE)
  \/ ManualCapture
  \/ \E k \in 1..MaxFiles : AddFiles(k)
  \/ \E i \in 1..MaxCaptures : RemoveCapture(i)
  \/ ClearCaptures
  \/ Unmount
  \/ \E ok \in BOOLEAN : BlobResolve(1, ok, FALSE)

SpecList == Init /\ [][NextList]_vars

\* Auto-capture alone: every frame taken by the camera is taken by the
\* countdown, while the render loop goes on observing the face between two
\* quality samples.
NextPose ==
  \/ NavNext
  \/ StartCamera /\ streamCount + pendingGUM = 0
  \/ SetAutoCapture
  \/ GumResolve(FALSE)
  \/ \E face \in Faces : RenderFrame(face, FALSE)
  \/ \E frame \in Frames, tick \in BOOLEAN : SamplerTick(frame, tick)
  \/ CountdownTimer
  \/ InitDone(TRUE, FALSE)
  \/ \E tick \in BOOLEAN : BlobResolve(1, TRUE, tick)
  \/ Advance

SpecPose == Init /\ [][NextPose]_vars

\* a tick of the sampler's interval would change the page
SamplerChanges ==
  /\ SamplerActive
  /\ videoSrc # NoStream
  /\ \E frame \in Frames :
       LET r == Settle(Snap, [Snap EXCEPT !.scanQuality =
                                QualitySample(latestFaceRef, frame[1], frame[2])], TRUE)
       IN  r # Snap /\ Len(r.encodings) <= MaxEncodings

\* setInterval keeps firing: weak fairness of the sampler tick, its
\* enabledness written out
FairSampler ==
  \/ []<>~SamplerChanges
  \/ []<><<\E frame \in Frames, tick \in BOOLEAN : SamplerTick(frame, tick)>>_vars

\* a timeout that is due runs: weak fairness of the countdown's callback
FairTimer ==
  \/ []<>~TimerReady
  \/ []<><<CountdownTimer>>_vars

\* canvas.toBlob calls back
FairBlob == []<>(encodings = <<>>)

\* The same under fair scheduling: time passes, a timeout that is due runs,
\* the sampler's interval keeps firing and toBlob calls back.
SpecLive ==
  /\ Init
  /\ [][NextPose]_vars
  /\ WF_vars(Advance)
  /\ FairTimer
  /\ FairSampler
  /\ FairBlob

-----------------------------------------------------------------------------
(* The quality aggregator on its own: one sampled frame, any input *)

Grid == {(100 * i) \div GridSteps : i \in 0..GridSteps}

\* brightness values: the grid and both sides of 0.25, 0.55 and 0.88
Brightnesses == Grid \cup {24, 25, 54, 55, 56, 88, 89}

\* sharpness values: the grid and both sides of 0.25
Sharpnesses == Grid \cup {24, 25, 78}

\* coverage of a found face is positive: area >= 1 pixel
Coverages == (Grid \ {0}) \cup {1, 7, 8, 19, 20, 21}

\* noseRatio values: the grid and both sides of 0.46 and 0.54
NoseRatios == Grid \cup {45, 46, 47, 53, 54, 55}

AggFaces ==
  {NoFace} \cup
  {[found |-> TRUE, coverage |-> c, noseRatio |-> n] : c \in Coverages, n \in NoseRatios}

InitAgg ==
  /\ InitPage
  /\ aggIn \in [face : AggFaces, brightness : Brightnesses, sharpness : Sharpnesses]
  /\ aggOut = NoOutput
  /\ IdleLayout
  /\ IdleAnchor
  /\ IdleStore
  /\ IdleFrame
  /\ IdleDraw

\* the sampler's computation and captureFromCamera's pose for the same observation
Aggregate ==
  /\ ~aggOut.done
  /\ aggOut' = [done |-> TRUE,
                quality |-> QualitySample(aggIn.face, aggIn.brightness, aggIn.sharpness),
                capturePose |-> CapturePose(aggIn.face)]
  /\ UNCHANGED <<pageVars, aggIn, pureVars>>

NextAgg == Aggregate

SpecAgg == InitAgg /\ [][NextAgg]_vars

-----------------------------------------------------------------------------
(* The callout column layout on its own: placeColumn for a column of callouts
   sorted by anchor.y, on a canvas of a given height.                        *)

\* anchors lie on the canvas, on a grid of AnchorStep pixels
AnchorsOn(h) == {y \in 0..h : y % AnchorStep = 0}

\* the columns after sort((a, b) => a.anchor.y - b.anchor.y), up to n callouts
SortedYs(h, n) ==
  {ys \in UNION {[1..k -> AnchorsOn(h)] : k \in 0..n} :
     \A i \in 1..(Len(ys) - 1) : ys[i] <= ys[i + 1]}

\* the lowest top edge a box may take
Bottom(h) == h - BoxH - Margin

\* one iteration of placeColumn's loop: the top edge of the box for anchor y
PlaceBox(first, lastY, y, h) ==
  LET centred == y - BoxH \div 2
      clamped == Max2(Margin, Min2(Bottom(h), centred))
      pushed  == IF ~first /\ clamped <= lastY + BoxH + Gap
                 THEN lastY + BoxH + Gap ELSE clamped
  IN IF pushed > Bottom(h) THEN Bottom(h) ELSE pushed

RECURSIVE PlaceFrom(_, _, _, _)
PlaceFrom(ys, i, placed, h) ==
  IF i > Len(ys) THEN placed
  ELSE PlaceFrom(ys, i + 1,
                 Append(placed, PlaceBox(i = 1, IF i = 1 THEN 0 ELSE placed[i - 1],
                                         ys[i], h)), h)

\* placeColumn: lastY starts at -Infinity, so the first box is never pushed
placeColumn(ys, h) == PlaceFrom(ys, 1, <<>>, h)

InitLayout ==
  /\ InitPage
  /\ IdleAgg
  /\ IdleAnchor
  /\ IdleStore
  /\ IdleFrame
  /\ IdleDraw
  /\ \E h \in CanvasHeights :
       layoutIn \in [height : {h}, ys : SortedYs(h, MaxCallouts)]
  /\ layoutOut = NoBoxes

Place ==
  /\ ~layoutOut.done
  /\ layoutOut' = [done |-> TRUE, by |-> placeColumn(layoutIn.ys, layoutIn.height)]
  /\ UNCHANGED <<pageVars, aggIn, aggOut, layoutIn, anchorIn, anchorOut, drawVars, storeVars>>

NextLayout == Place

SpecLayout == InitLayout /\ [][NextLayout]_vars

-----------------------------------------------------------------------------
(* Vocabulary of the properties *)

\* every gating condition of the auto-capture holds for the rendered state
GatesHold ==
  /\ autoCapture
  /\ cameraOn
  /\ step = 1
  /\ Len(captures) < MaxItems
  /\ Good(scanQuality)
  /\ ~SamePose(scanQuality, lastCapturedPoseRef)

\* this step stamped lastAutoCaptureAtRef: the zero effect performed a capture
AutoFired == sinceAutoCapture' < sinceAutoCapture

\* this step appended the item of an auto-capture whose encoding was pending
AutoAppended ==
  /\ Len(encodings) > 0
  /\ encodings[1].auto
  /\ encodings' # encodings
  /\ Len(captures') = Len(captures) + 1

\* the capture surface is not up: camera off, scan step left, or unmounted
TornDown == ~(mounted /\ cameraOn /\ step = 1)

-----------------------------------------------------------------------------
(* Properties of the auto-capture machine (SpecAuto) *)

\* C1: an auto-capture fires only in the step of the timeout that takes the
\* countdown from 1 to 0, and only when, in the state rendered by that step,
\* auto-capture is on, the camera is on, the scan step is active, fewer than 3
\* items are held, the score is >= 0.78 with no warning, the pose is unknown or
\* differs from lastCapturedPose, and more than 2.5 s passed since the last
\* stamp; the countdown is null afterwards, and a countdown of 0 never stays:
\* when a gate fails at zero it becomes null and nothing is captured.
C1_FireOnlyAtZeroWithGates ==
  [][/\ autoCountdown # Null => sinceAutoCapture > CooldownMs
     /\ AutoFired =>
          /\ autoCountdown = 1
          /\ timerLeft = 0
          /\ sinceAutoCapture > CooldownMs
          /\ GatesHold'
          /\ autoCountdown' = Null
     /\ autoCountdown' # 0]_vars

\* an auto-capture has just fired: its encoding is pending and the stamp is fresh
C1_Witness ==
  /\ sinceAutoCapture = 0
  /\ Len(encodings) = 1
  /\ encodings[1].auto
  /\ autoCountdown = Null
  /\ GatesHold

\* C2: whenever the sampled pose is front, left or right and equals
\* lastCapturedPose, the countdown is null after the step and the step fires no
\* auto-capture, however good the sample and whether or not a timeout ran.
C2_SamePoseNeverCounts ==
  [][SamePose(scanQuality', lastCapturedPoseRef') =>
       autoCountdown' = Null /\ ~AutoFired]_vars

\* a perfect front sample right after a front capture: only the pose rule holds
\* the countdown back
C2_Witness ==
  /\ lastCapturedPoseRef = "front"
  /\ scanQuality.pose = "front"
  /\ Good(scanQuality)
  /\ autoCapture
  /\ cameraOn
  /\ step = 1
  /\ Len(captures) < MaxItems
  /\ sinceAutoCapture > CooldownMs
  /\ autoCountdown = Null

\* C3: the countdown goes to 3 only from null and only when more than 2500 ms
\* passed since the last auto-capture was stamped.
C3_CooldownBeforeCountdown ==
  [][autoCountdown' = CountdownStart /\ autoCountdown # CountdownStart =>
       autoCountdown = Null /\ sinceAutoCapture > CooldownMs]_vars

\* exactly 2500 ms after an auto-capture, every gate open, the countdown is null
C3_Witness ==
  /\ sinceAutoCapture = CooldownMs
  /\ GatesHold
  /\ autoCountdown = Null

\* C4: while the capture list holds 3 or more items the countdown is null: it
\* does not start, and a countdown in progress when the third item arrives is
\* reset in the same step.
C4_BudgetStopsCountdown == Len(captures) >= MaxItems => autoCountdown = Null

\* three items, every other gate open and the cooldown over: only the budget
\* holds the countdown back
C4_Witness ==
  /\ Len(captures) >= MaxItems
  /\ autoCapture
  /\ cameraOn
  /\ step = 1
  /\ Good(scanQuality)
  /\ ~SamePose(scanQuality, lastCapturedPoseRef)
  /\ sinceAutoCapture > CooldownMs
  /\ autoCountdown = Null

\* C5: when the item of an auto-capture is appended to the capture list,
\* auto-capture is on, the camera is on, the scan step is active and the list
\* held fewer than 3 items.
C5_AppendWithinGates ==
  [][AutoAppended =>
       /\ autoCapture'
       /\ cameraOn'
       /\ step' = 1
       /\ Len(captures) < MaxItems]_vars

\* C6: a step taken while the countdown is positive that renders a state with
\* a gate closed leaves the countdown null and fires no auto-capture.
C6_AbortWhileCounting ==
  [][autoCountdown > 0 /\ ~GatesHold' =>
       autoCountdown' = Null /\ ~AutoFired]_vars

\* the countdown is at 2 with its timeout due while the sampler runs: the next
\* sample is evaluated together with, or instead of, the decrement
C6_Witness ==
  /\ autoCountdown = 2
  /\ timerLeft = 0
  /\ SamplerActive
  /\ videoSrc # NoStream

-----------------------------------------------------------------------------
(* Properties of the camera sessions (SpecCam) *)

\* C7: every stream getUserMedia handed out and whose tracks are not stopped is
\* the one streamRef holds while the capture surface is up; once the surface is
\* torn down no stream is live.
C7_EveryStreamReleased ==
  liveStreams \subseteq (IF TornDown THEN {} ELSE {streamRef})

\* C8: a step taken while the capture surface is torn down writes no
\* FaceObservation, publishes no quality sample, leaves the countdown null with
\* no timeout pending, and fires no auto-capture.
C8_QuietAfterTeardown ==
  [][TornDown =>
       /\ mounted' => latestFaceRef' = latestFaceRef
       /\ scanQuality' \in {scanQuality, ResetQuality}
       /\ autoCountdown' = Null
       /\ timerLeft' = NoTimer
       /\ ~AutoFired]_vars

\* the camera was stopped while the model was still loading: an init() of the
\* cleaned-up effect run is pending after the teardown
C8_Witness ==
  /\ mounted
  /\ ~cameraOn
  /\ streamCount > 0
  /\ staleInits > 0
  /\ liveStreams = {}

-----------------------------------------------------------------------------
(* Properties of the quality aggregator (SpecAgg) *)

\* C9: for brightness, sharpness and faceCoverage in [0,1] the score is in
\* [0,1] (0..110000 in the model's unit), and it is 0 when no face is found.
C9_ScoreInUnitInterval ==
  aggOut.done =>
    /\ aggOut.quality.score >= 0
    /\ aggOut.quality.score <= 110000
    /\ ~aggIn.face.found => aggOut.quality.score = 0

\* a sharp, well lit frame without a face has been aggregated
C9_Witness ==
  /\ aggOut.done
  /\ ~aggIn.face.found
  /\ aggIn.sharpness = 100
  /\ aggIn.brightness = BrightCenter

\* C10: for a found face the sampler's pose is left below 0.46, right above
\* 0.54 and front otherwise, 0.46 and 0.54 included; without a face it is
\* unknown; captureFromCamera records the same pose for the same observation.
C10_PoseByNoseRatio ==
  aggOut.done =>
    /\ aggOut.quality.pose =
         (IF ~aggIn.face.found THEN "unknown"
          ELSE IF aggIn.face.noseRatio < 46 THEN "left"
          ELSE IF aggIn.face.noseRatio > 54 THEN "right"
          ELSE "front")
    /\ aggOut.capturePose = aggOut.quality.pose

\* a found face with noseRatio exactly 0.46 has been classified
C10_Witness ==
  /\ aggOut.done
  /\ aggIn.face.found
  /\ aggIn.face.noseRatio = PoseLeftBelow
  /\ aggOut.capturePose = "front"

-----------------------------------------------------------------------------
(* The heatmap anchor on its own: heatmapAnchor for a loaded, readable heatmap
   image drawn on a canvas of the size of the downsampled image.             *)

\* the pixels of the downsampled image
Pixels == (0..(ImgW - 1)) \X (0..(ImgH - 1))

\* alpha values: transparent, below the least threshold, and two opaque ones
Alphas == {0, 30, 200}

RECURSIVE MaxOver(_, _)
\* let maxA = 0; for every pixel: if (a > maxA) maxA = a
MaxOver(img, ps) ==
  IF ps = {} THEN 0
  ELSE LET p == CHOOSE q \in ps : TRUE
       IN Max2(img[p], MaxOver(img, ps \ {p}))

\* the pixels the centroid loops visit
Sampled == {p \in Pixels : p[1] % CentroidStep = 0 /\ p[2] % CentroidStep = 0}

RECURSIVE WeightedSum(_, _, _)
\* the sum of img[p] * k over the pixels of ps, k = 1, 2x + 1 or 2y + 1
WeightedSum(img, ps, axis) ==
  IF ps = {} THEN 0
  ELSE LET p == CHOOSE q \in ps : TRUE
           k == IF axis = 0 THEN 1 ELSE 2 * p[axis] + 1
       IN img[p] * k + WeightedSum(img, ps \ {p}, axis)

\* centroid(minA): x = sumX / sum and y = sumY / sum, kept as the three sums
\* with the coordinates doubled ((x + 0.5) * w = (2x + 1) * w / 2)
centroid(img, minA) ==
  LET kept == {p \in Sampled : img[p] >= minA}
      sum  == WeightedSum(img, kept, 0)
  IN IF sum <= 0 THEN NullPoint
     ELSE [some |-> TRUE, sum |-> sum, sumX2 |-> WeightedSum(img, kept, 1),
           sumY2 |-> WeightedSum(img, kept, 2)]

\* Math.round(maxA * 0.55)
Round55(a) == (55 * a + 50) \div 100

thresh(maxA) == Max2(MinThresh, Round55(maxA))

heatmapAnchor(img) ==
  LET maxA == MaxOver(img, Pixels)
  IN IF maxA <= 0 THEN NullPoint
     ELSE IF centroid(img, thresh(maxA)).some THEN centroid(img, thresh(maxA))
     ELSE centroid(img, 1)

InitAnchor ==
  /\ InitPage
  /\ IdleAgg
  /\ IdleLayout
  /\ IdleStore
  /\ IdleFrame
  /\ IdleDraw
  /\ anchorIn \in [Pixels -> Alphas]
  /\ anchorOut = NoAnchor

Anchor ==
  /\ ~anchorOut.done
  /\ anchorOut' = [done |-> TRUE, anchor |-> heatmapAnchor(anchorIn)]
  /\ UNCHANGED <<pageVars, aggIn, aggOut, layoutIn, layoutOut, anchorIn, drawVars, storeVars>>

NextAnchor == Anchor

SpecAnchor == InitAnchor /\ [][NextAnchor]_vars

-----------------------------------------------------------------------------
(* The clamps of the sampler and of the live loop on their own.  luma is the
   mean luma of the downsampled frame (0..255), variance the variance of its
   Laplacian, box the bounding box of the landmarks: its area and the offset
   of the nose in it, in hundredths of the frame and of the box.            *)

Clamp(lo, hi, v) == Max2(lo, Min2(hi, v))

\* brightness = Math.max(0, Math.min(1, sum / (w * h * 255)))
Brightness(luma) == Clamp(0, 100, (100 * luma) \div 255)

\* sharpness without its clamp (fault)
SharpnessUnclamped(variance) == (100 * variance) \div SharpDivisor

\* sharpness = Math.max(0, Math.min(1, variance / 800))
Sharpness(variance) == Clamp(0, 100, (100 * variance) \div SharpDivisor)

\* render(): the FaceObservation written for the landmarks of a frame
Observation(box) ==
  IF ~box.found THEN NoFace
  ELSE [found |-> TRUE, coverage |-> Clamp(0, 100, box.area),
        noseRatio |-> Clamp(0, 100, box.nose)]

\* mean lumas: black, dim, bright, white
Lumas == {0, 60, 140, 255}

\* variances of the Laplacian: flat, soft, the divisor, far above it
Variances == {0, 100, 800, 6000}

\* landmarks: none, a face of one pixel, a face, a face reaching beyond the frame
Boxes ==
  {[found |-> FALSE, area |-> 0, nose |-> 50]} \cup
  {[found |-> TRUE, area |-> a, nose |-> 50] : a \in {1, 25, 180}}

\* the sampler tick for the frame: the observation is written by render() first
Sample ==
  /\ ~frameOut.done
  /\ frameOut' = [done |-> TRUE,
                  quality |-> QualitySample(Observation(frameIn.box),
                                            Brightness(frameIn.luma),
                                            Sharpness(frameIn.variance))]
  /\ UNCHANGED <<pageVars, aggIn, aggOut, layoutIn, layoutOut, anchorIn, anchorOut,
                 frameIn, drawIn, drawOut, storeVars>>

-----------------------------------------------------------------------------
(* The drawing of the concern map on its own.  A metric of the analysis is
   [id, severity, confidence, heatmap]: severity in points (0..100 when the
   analysis is well formed), confidence in tenths, heatmap the outcome of
   loading analysis.heatmaps[id]: "none" (no source), "broken" (onerror) or
   "loaded".  Weights are thousandths, alphas are 1/100000.                 *)

\* Math.pow(x, 0.7) for x = p / 100, in thousandths, p = 0..100
Pow07 ==
  <<0,   40,   65,   86,  105,  123,  140,  155,  171,  185,
      200,  213,  227,  240,  253,  265,  277,  289,  301,  313,
      324,  335,  346,  357,  368,  379,  389,  400,  410,  420,
      431,  441,  450,  460,  470,  480,  489,  499,  508,  517,
      527,  536,  545,  554,  563,  572,  581,  589,  598,  607,
      616,  624,  633,  641,  650,  658,  666,  675,  683,  691,
      699,  708,  716,  724,  732,  740,  748,  756,  763,  771,
      779,  787,  795,  802,  810,  818,  825,  833,  840,  848,
      855,  863,  870,  878,  885,  892,  900,  907,  914,  922,
      929,  936,  943,  950,  958,  965,  972,  979,  986,  993,
     1000>>

\* the metric of an id: meta[id], the last metric of the list with that id
Meta(metrics, id) ==
  LET at == {i \in 1..Len(metrics) : metrics[i].id = id}
  IN  metrics[CHOOSE i \in at : \A j \in at : j <= i]

\* metricWeight(id): Math.pow(s * c, 0.7) with s and c clamped to [0,1]
metricWeight(metrics, id) ==
  IF \A i \in 1..Len(metrics) : metrics[i].id # id THEN 0
  ELSE LET m == Meta(metrics, id)
           s == Clamp(0, 10, m.severity \div 10)
           c == Clamp(0, 10, m.confidence)
       IN  Pow07[s * c + 1]

\* one step of the stable sort((a, b) => b.severity - a.severity)
InsertBySeverity(sorted, m) ==
  LET k == Cardinality({i \in 1..Len(sorted) : sorted[i].severity >= m.severity})
  IN  SubSeq(sorted, 1, k) \o <<m>> \o SubSeq(sorted, k + 1, Len(sorted))

RECURSIVE SortBySeverity(_, _)
SortBySeverity(ms, sorted) ==
  IF ms = <<>> THEN sorted
  ELSE SortBySeverity(Tail(ms), InsertBySeverity(sorted, Head(ms)))

Filter(ms, min) ==
  LET F[i \in 0..Len(ms)] ==
        IF i = 0 THEN <<>>
        ELSE IF ms[i].severity >= min THEN Append(F[i - 1], ms[i]) ELSE F[i - 1]
  IN  F[Len(ms)]

Slice(ms, n) == SubSeq(ms, 1, Min2(n, Len(ms)))

\* topConcernMetrics: the metrics of severity >= 12 in order of severity when
\* there are three or more, else the three of highest severity; six at most
topConcernMetrics(metrics) ==
  LET sorted   == SortBySeverity(metrics, <<>>)
      filtered == Filter(sorted, TopSeverity)
      pick     == IF Len(filtered) >= TopFew THEN filtered ELSE Slice(sorted, TopFew)
  IN  Slice(pick, TopMost)

\* activeMetricIds
activeMetricIds(metrics, focus) ==
  IF focus = "top"
    THEN [i \in 1..Len(topConcernMetrics(metrics)) |-> topConcernMetrics(metrics)[i].id]
  ELSE IF focus # "" THEN <<focus>>
  ELSE <<>>

Range(seq) == {seq[i] : i \in 1..Len(seq)}

\* heatmapIds: the active ids whose heatmap image loaded
heatmapIds(metrics, focus) ==
  {id \in Range(activeMetricIds(metrics, focus)) :
     \E i \in 1..Len(metrics) : metrics[i].id = id /\ metrics[i].heatmap = "loaded"}

\* ctx.globalAlpha of a heatmap image: Math.max(0, Math.min(1, 0.3 + 0.7 * w))
HeatAlpha(w) == Clamp(0, 100000, 30000 + 70 * w)

\* the alpha factors of the spots of each glow, in hundredths
GlowFactors(id) ==
  CASE id = "oiliness"    -> {42, 50, 38}
    [] id = "redness"     -> {58}
    [] id = "uneven_tone" -> {34, 38}
    [] id = "texture"     -> {48, 36}
    [] id = "puffy_eyes"  -> {56}
    [] id = "wrinkles"    -> {36, 50}
    [] OTHER              -> {}

\* the glow of an id is drawn over its heatmap as well
OverHeatmap(id) == id = "puffy_eyes"

\* the ids whose glow block runs: shouldDraw(id) && !heatmapIds.has(id), the
\* second test missing for puffy_eyes
GlowIds(metrics, focus) ==
  {id \in Range(activeMetricIds(metrics, focus)) :
     OverHeatmap(id) \/ id \notin heatmapIds(metrics, focus)}

\* spot(p, r, rgb, alpha): nothing for alpha <= 0, else the gradient starts at
\* Math.max(0, Math.min(alpha, 0.85))
Spots(id, w) ==
  {[id |-> id, alpha |-> Clamp(0, SpotCap, k * w)] : k \in {f \in GlowFactors(id) : f * w > 0}}

\* drawCallout: rgba(c.rgb, Math.max(0.42, Math.min(0.92, 0.45 + 0.55 * c.w)))
CalloutAlpha(w) == Clamp(0, 100000, Clamp(42000, 92000, 45000 + 55 * w))

\* what one pass of renderConcernMap draws after the heatmap images settled
Drawing(metrics, focus) ==
  LET active == activeMetricIds(metrics, focus)
      w == [id \in Range(active) |-> metricWeight(metrics, id)]
  IN  [done |-> TRUE,
       active |-> active,
       weight |-> [i \in 1..Len(active) |-> w[active[i]]],
       heat |-> {[id |-> id, alpha |-> HeatAlpha(w[id])] : id \in heatmapIds(metrics, focus)},
       glow |-> UNION {Spots(id, w[id]) : id \in GlowIds(metrics, focus)},
       callout |-> {[id |-> id, alpha |-> CalloutAlpha(w[id])] :
                      id \in {a \in Range(active) :
                                (\E i \in 1..Len(metrics) : metrics[i].id = a) /\ w[a] > 0}}]

Draw ==
  /\ ~drawOut.done
  /\ drawOut' = Drawing(drawIn.metrics, drawIn.focus)
  /\ UNCHANGED <<pageVars, aggIn, aggOut, layoutIn, layoutOut, anchorIn, anchorOut,
                 frameIn, frameOut, drawIn, storeVars>>

\* severities and confidences an analysis can carry, well formed or not
WildSeverities == {-20, 0, 10, 50, 100, 130}

WildConfidences == {-2, 0, 5, 10, 13}

\* every frame and every one-metric analysis, in or out of range
InitRange ==
  /\ InitPage
  /\ IdleAgg
  /\ IdleLayout
  /\ IdleAnchor
  /\ IdleStore
  /\ frameIn \in [luma : Lumas, variance : Variances, box : Boxes]
  /\ frameOut = NoSample
  /\ drawIn \in [metrics : {<<m>> : m \in [id : {"redness"}, severity : WildSeverities,
                                           confidence : WildConfidences,
                                           heatmap : {"none", "loaded"}]},
                 focus : {"top"}]
  /\ drawOut = NoDrawing

NextRange ==
  \/ Sample
  \/ Draw

SpecRange == InitRange /\ [][NextRange]_vars

\* the metrics of an analysis, in the order of the response
DrawnIds == <<"oiliness", "redness", "puffy_eyes", "wrinkles">>

\* severities: none, below the top-concern threshold, two above it
DrawSeverities == {0, 10, 50}

\* confidences in tenths
DrawConfidences == {2, 10}

\* analyses of four metrics: any severities, the confidence of the first two
\* low or full, a heatmap for oiliness and for puffy_eyes missing, broken or
\* loaded; the focus on the top concerns or on one of these two
InitDraw ==
  /\ InitPage
  /\ IdleAgg
  /\ IdleLayout
  /\ IdleAnchor
  /\ IdleStore
  /\ IdleFrame
  /\ \E sev \in [1..4 -> DrawSeverities], conf \in [1..2 -> DrawConfidences],
        heat \in [{1, 3} -> {"none", "broken", "loaded"}],
        focus \in {"top", "oiliness", "puffy_eyes"} :
       drawIn = [metrics |-> [i \in 1..4 |->
                                [id |-> DrawnIds[i], severity |-> sev[i],
                                 confidence |-> IF i <= 2 THEN conf[i] ELSE 10,
                                 heatmap |-> IF i \in {1, 3} THEN heat[i] ELSE "none"]],
                 focus |-> focus]
  /\ drawOut = NoDrawing

NextDraw == Draw

SpecDraw == InitDraw /\ [][NextDraw]_vars

-----------------------------------------------------------------------------
(* The stored history (lib/storage.ts) *)

\* An entry is [id, createdAt]: createdAt is the time its string parses to, in
\* days after 1970, or Unparsed when new Date(createdAt).getTime() is NaN.
Unparsed == -1

\* Number.isFinite(t) ? t : 0, of t = new Date(entry.createdAt).getTime()
Time(entry) == IF entry.createdAt = Unparsed THEN 0 ELSE entry.createdAt

\* current.filter((x) => x.id !== id)
WithoutId(h, id) == SelectSeq(h, LAMBDA x : x.id # id)

\* saveToHistory that keeps the older entry of the same id as well (fault)
saveKeepingOlder(h, entry) == Slice(<<entry>> \o h, HistoryCap)

\* saveToHistory: [entry, ...current.filter((x) => x.id !== entry.id)].slice(0, 25)
saveToHistory(h, entry) == Slice(<<entry>> \o WithoutId(h, entry.id), HistoryCap)

\* sanitizeHistory: the items with a string id, a string createdAt and an
\* object response, reduced to the fields of an entry
sanitizeHistory(raw) ==
  LET F[i \in 0..Len(raw)] ==
        IF i = 0 THEN <<>>
        ELSE IF raw[i].response
          THEN Append(F[i - 1], [id |-> raw[i].id, createdAt |-> raw[i].createdAt])
        ELSE F[i - 1]
  IN  F[Len(raw)]

\* one step of the stable sort by (tb - ta): an entry goes after those that
\* are as new or newer
InsertByTime(sorted, e) ==
  LET k == Cardinality({i \in 1..Len(sorted) : Time(sorted[i]) >= Time(e)})
  IN  SubSeq(sorted, 1, k) \o <<e>> \o SubSeq(sorted, k + 1, Len(sorted))

RECURSIVE SortByTime(_, _)
SortByTime(es, sorted) ==
  IF es = <<>> THEN sorted
  ELSE SortByTime(Tail(es), InsertByTime(sorted, Head(es)))

\* for (const entry of combined) { if (seen.has(entry.id)) continue; ... }
Dedupe(es) ==
  LET F[i \in 0..Len(es)] ==
        IF i = 0 THEN <<>>
        ELSE IF \E j \in 1..(i - 1) : es[j].id = es[i].id THEN F[i - 1]
        ELSE Append(F[i - 1], es[i])
  IN  F[Len(es)]

\* the merge of importUserData before the slice
Merged(h, raw) == Dedupe(SortByTime(h \o sanitizeHistory(raw), <<>>))

\* importUserData: what it stores under KEY
importUserData(h, raw) == Slice(Merged(h, raw), HistoryCap)

\* ids of analyses: more than the store holds
MaxIds == 27
Ids == 1..MaxIds

\* the analysis whose entry is exported, imported and saved again
Shared == 1

\* the time the page stamps on an entry it saves, between the times of the
\* files that are imported
Now == 2
FileTimes == {Unparsed, 1, 3}

\* the ids the store holds
Held == {history[j].id : j \in 1..Len(history)}

\* the ids of the analyses made so far, which the server numbers in order
Made == Held \ {Shared}
LastMade == IF Made = {} THEN Shared ELSE CHOOSE i \in Made : \A k \in Made : k <= i

\* the entries the page saves: the next analysis, or the shared one again
SavedEntries ==
  {[id |-> i, createdAt |-> Now] : i \in {Shared} \cup ({LastMade + 1} \cap Ids)}

Entries == [id : Ids, createdAt : {Now}]

\* the items of an imported file: the shared analysis at any time, or an item
\* without a response
FileItems == [id : {Shared}, createdAt : FileTimes, response : BOOLEAN]

\* the imported files: one item, or an old item and then any other one
Files ==
  {<<a>> : a \in FileItems} \cup
  {<<a, b>> : a \in {x \in FileItems : x.createdAt = 1 /\ x.response},
              b \in {x \in FileItems : x.response}}

\* saveToHistory(entry)
SaveToHistory(entry) ==
  /\ entry \in SavedEntries
  /\ history' = saveToHistory(history, entry)
  /\ UNCHANGED <<pageVars, aggIn, aggOut, layoutIn, layoutOut, anchorIn, anchorOut,
                 drawVars, run>>

\* importUserData(json), json parsing to the list raw
ImportUserData(raw) ==
  /\ history' = importUserData(history, raw)
  /\ UNCHANGED <<pageVars, aggIn, aggOut, layoutIn, layoutOut, anchorIn, anchorOut,
                 drawVars, run>>

\* clearHistory(): localStorage.removeItem(KEY), so that loadHistory() is []
ClearHistory ==
  /\ history # <<>>
  /\ history' = <<>>
  /\ UNCHANGED <<pageVars, aggIn, aggOut, layoutIn, layoutOut, anchorIn, anchorOut,
                 drawVars, run>>

NextStore ==
  \/ \E entry \in Entries : SaveToHistory(entry)
  \/ \E raw \in Files : ImportUserData(raw)
  \/ ClearHistory

SpecStore == Init /\ [][NextStore]_vars

-----------------------------------------------------------------------------
(* runAnalysis and what it leaves behind *)

\* result === null
NoResult == 0

\* postEmbedEvent(name, ...): posts to window.parent when the page is embedded
\* (window.parent !== window), else returns
postEmbedEvent(r, name) ==
  IF r.embedded THEN [r EXCEPT !.events = Append(@, name)] ELSE r

\* the catch block and finally: setError(message), setStep(3),
\* postEmbedEvent('analysis_failed'), setLoading(false)
Caught(r) ==
  [postEmbedEvent(r, "analysis_failed") EXCEPT
     !.error = TRUE, !.step = 3, !.loading = FALSE, !.phase = "done"]

\* the end of the try block and finally: setStep(3), setLoading(false)
Returned(r) == [r EXCEPT !.step = 3, !.loading = FALSE, !.phase = "done"]

\* the analyses the server answers with and the times the page stamps
RunIds == 1..2
RunTimes == 1..2

\* runAnalysis() up to await analyzeSkin: the button is disabled while loading
StartRun ==
  /\ run.phase = "idle"
  /\ ~run.loading
  /\ run' = [postEmbedEvent([run EXCEPT !.events = <<>>], "analysis_started") EXCEPT
               !.loading = TRUE, !.error = FALSE, !.result = NoResult,
               !.phase = "analyze"]
  /\ UNCHANGED <<pageVars, aggIn, aggOut, layoutIn, layoutOut, anchorIn, anchorOut,
                 drawVars, history>>

\* saveToHistory(entry) inside the try block: localStorage.setItem stores the
\* list (stored) or throws, the quota being exceeded or storage being denied
Keep(r, entry, stored) ==
  /\ run' = IF stored THEN Returned(r) ELSE Caught(r)
  /\ history' = IF stored THEN saveToHistory(history, entry) ELSE history

\* analyzeSkin settled: rejected (~ok), or resolved with the analysis id; with
\* selected, captures[res.selected_image] exists and blobToThumb is awaited
AnalyzeDone(ok, id, selected, now, stored) ==
  /\ run.phase = "analyze"
  /\ IF ~ok THEN run' = Caught(run) /\ UNCHANGED history
     ELSE LET r == postEmbedEvent([run EXCEPT !.result = id], "analysis_completed")
          IN  IF selected
                THEN run' = [r EXCEPT !.phase = "thumb"] /\ UNCHANGED history
              ELSE Keep(r, [id |-> id, createdAt |-> now], stored)
  /\ UNCHANGED <<pageVars, aggIn, aggOut, layoutIn, layoutOut, anchorIn, anchorOut,
                 drawVars>>

\* blobToThumb resolved, with a data URL or with undefined: it never rejects
ThumbDone(now, stored) ==
  /\ run.phase = "thumb"
  /\ Keep(run, [id |-> run.result, createdAt |-> now], stored)
  /\ UNCHANGED <<pageVars, aggIn, aggOut, layoutIn, layoutOut, anchorIn, anchorOut,
                 drawVars>>

\* "Back to questions": setStep(2)
BackToQuestions ==
  /\ run.phase = "done"
  /\ run' = [run EXCEPT !.step = 2, !.phase = "idle"]
  /\ UNCHANGED <<pageVars, aggIn, aggOut, layoutIn, layoutOut, anchorIn, anchorOut,
                 drawVars, history>>

\* the page on its own or embedded in a partner's page, at the questions
InitRun ==
  /\ InitPage
  /\ IdleAgg
  /\ IdleLayout
  /\ IdleAnchor
  /\ IdleFrame
  /\ IdleDraw
  /\ history = <<>>
  /\ run \in {[NoRun EXCEPT !.embedded = e] : e \in BOOLEAN}

NextRun ==
  \/ StartRun
  \/ \E ok, selected, stored \in BOOLEAN, id \in RunIds, now \in RunTimes :
       AnalyzeDone(ok, id, selected, now, stored)
  \/ \E now \in RunTimes, stored \in BOOLEAN : ThumbDone(now, stored)
  \/ BackToQuestions

SpecRun == InitRun /\ [][NextRun]_vars

-----------------------------------------------------------------------------
(* Callout layout *)

\* C11: the boxes of one column occupy pairwise disjoint vertical intervals
\* [by, by + boxH], each box starting at least the gap below the end of the
\* box before it, also when the column has more boxes than fit
C11_BoxesDisjoint ==
  layoutOut.done =>
    \A i \in 1..Len(layoutOut.by) : \A j \in 1..Len(layoutOut.by) :
      i < j => layoutOut.by[j] >= layoutOut.by[i] + BoxH + Gap

\* a column whose boxes do not all fit has been laid out
C11_Overfull ==
  /\ layoutOut.done
  /\ Len(layoutIn.ys) * BoxH + (Len(layoutIn.ys) - 1) * Gap
       > layoutIn.height - 2 * Margin

\* C12: heatmapAnchor returns no anchor exactly when every alpha value of the
\* downsampled image is zero; with some nonzero alpha below the primary
\* threshold the centroid of the nonzero pixels is returned
C12_AnchorIffSomeAlpha ==
  anchorOut.done =>
    (~anchorOut.anchor.some <=> (\A p \in Pixels : anchorIn[p] = 0))

-----------------------------------------------------------------------------
(* Samples of the quality aggregator in a camera session *)

\* the sample carries the no-face warning
HasNoFace(q) == \E i \in 1..Len(q.warnings) : q.warnings[i] = "no_face"

\* a sampler tick that reads an observation with found = false
SamplerTickNoFace ==
  /\ ~latestFaceRef.found
  /\ \E frame \in Frames, tick \in BOOLEAN : SamplerTick(frame, tick)

\* C13: a sampler tick reading found = false publishes score 0 with the no-face
\* warning, and with such a sample rendered the countdown is not running and no
\* auto-capture fires, whatever the brightness and the sharpness
C13_NoFaceNeverCounts ==
  [][/\ SamplerTickNoFace /\ mounted' =>
          scanQuality'.score = 0 /\ HasNoFace(scanQuality')
     /\ HasNoFace(scanQuality') => autoCountdown' = Null /\ ~AutoFired]_vars

\* a no-face sample of a bright, sharp frame is rendered while every other gate
\* of the auto-capture is open
C13_Witness ==
  /\ HasNoFace(scanQuality)
  /\ scanQuality.brightness = 55 /\ scanQuality.sharpness = 90
  /\ autoCapture /\ cameraOn /\ step = 1
  /\ Len(captures) < MaxItems
  /\ sinceAutoCapture > CooldownMs

\* 0.45*sharpness + 0.35*max(0, 1 - |brightness - 0.55|/0.55)
\*   + 0.20*min(1, faceCoverage/0.20), in 1/110000
WeightedScore(brightness, sharpness, faceCoverage) ==
  495 * sharpness + 700 * Max2(0, BrightCenter - Abs(brightness - BrightCenter))
    + 1100 * Min2(SizeFull, faceCoverage)

\* the gates of the entry effect other than the sample itself
OtherGatesOpen ==
  /\ autoCapture /\ cameraOn /\ step = 1
  /\ Len(captures) < MaxItems
  /\ sinceAutoCapture > CooldownMs
  /\ ~SamePose(scanQuality, lastCapturedPoseRef)

\* a sampler tick with a found face publishes the weighted score; the tick
\* with brightness 0.55, sharpness 0.9 and coverage 0.25 publishes the score
\* `expected` with no warning and leaves a countdown running when the other
\* gates are open
FoundTickScores(expected) ==
  \A frame \in Frames, tick \in BOOLEAN :
    latestFaceRef.found /\ SamplerTick(frame, tick) =>
      /\ scanQuality'.score =
           WeightedScore(frame[1], frame[2], latestFaceRef.coverage)
      /\ frame = <<55, 90>> /\ latestFaceRef.coverage = 25 =>
           /\ scanQuality'.score = expected
           /\ scanQuality'.warnings = <<>>
           /\ OtherGatesOpen' => autoCountdown' # Null

\* C14 (as amended): with a face found the score is the weighted sum; brightness
\* 0.55, sharpness 0.9, coverage 0.25 gives 0.955 with no warning, and that
\* sample starts a countdown when auto-capture is on, fewer than 3 items exist,
\* the cooldown has elapsed and the pose differs from the last captured one
C14_ScoreAndStart == [][FoundTickScores(955 * 110)]_vars

\* C14 (as stated): the same with the score 0.805 for that sample
C14_AsStated == [][FoundTickScores(805 * 110)]_vars

\* the sample of brightness 0.55, sharpness 0.9, coverage 0.25 is rendered and
\* the countdown it started shows 3
C14_Witness ==
  /\ scanQuality.brightness = 55 /\ scanQuality.sharpness = 90
  /\ scanQuality.faceCoverage = 25
  /\ OtherGatesOpen
  /\ autoCountdown = CountdownStart

-----------------------------------------------------------------------------
(* Warnings of the quality aggregator *)

\* how often the warning w occurs in the list of the aggregated sample
Count(w) ==
  Cardinality({i \in 1..Len(aggOut.quality.warnings) : aggOut.quality.warnings[i] = w})

One(cond) == IF cond THEN 1 ELSE 0

\* C15: the warning list holds exactly one warning for each condition that
\* holds and none for the others (brightness < 0.25, brightness > 0.88,
\* sharpness < 0.25, face not found, face found with coverage < 0.08), whatever
\* the score
C15_OneWarningPerCondition ==
  aggOut.done =>
    /\ Count("low_light") = One(aggIn.brightness < 25)
    /\ Count("strong_light") = One(aggIn.brightness > 88)
    /\ Count("blurry") = One(aggIn.sharpness < 25)
    /\ Count("no_face") = One(~aggIn.face.found)
    /\ Count("too_small") = One(aggIn.face.found /\ aggIn.face.coverage < 8)
    /\ Len(aggOut.quality.warnings) =
         Count("low_light") + Count("strong_light") + Count("blurry")
           + Count("no_face") + Count("too_small")

\* three conditions hold at once for a found face
C15_Witness ==
  /\ aggOut.done
  /\ aggIn.face.found
  /\ Len(aggOut.quality.warnings) = 3

-----------------------------------------------------------------------------
(* The live overlay loop *)

\* C16: a render pass in which the landmark source reports no face leaves the
\* overlay canvas cleared, without the heatmap layer even when a buffer of an
\* earlier frame is held, and publishes found = false
C16_NoFaceClearsOverlay ==
  [][RenderFrame(NoFace, FALSE) =>
       overlay' = "clear" /\ ~latestFaceRef'.found]_vars

\* the loop holds a heatmap buffer of an earlier frame and its last pass found
\* no face
C16_Witness ==
  /\ meshRun = "loop"
  /\ heatData
  /\ ~latestFaceRef.found
  /\ overlay = "clear"

\* this step executed computeLiveHeatmap some time after the execution before
HeatRecomputed == sinceHeat' = 0 /\ sinceHeat # 0

\* C17: two consecutive executions of computeLiveHeatmap in one camera session
\* are more than 250 ms apart, and it is executed only in a pass that found a
\* face
C17_HeatThrottled ==
  [][HeatRecomputed => sinceHeat > 250 /\ latestFaceRef'.found]_vars

\* a pass found a face 250 ms after the last computation and drew the buffer
\* held without recomputing it
C17_Witness ==
  /\ meshRun = "loop"
  /\ heatData
  /\ sinceHeat = 250
  /\ latestFaceRef = SmallFarFace
  /\ overlay = "mesh"

\* C19: a failure of the landmark source (the model does not load, a detection
\* call throws) ends in the status error and no exception leaves the page
C19_FailureEndsInError ==
  [][/\ InitDone(FALSE, FALSE) => meshStatus' = "error"
     /\ (\E face \in {NoFace, FrontFace, SmallFarFace} : RenderFrame(face, TRUE)) =>
          meshStatus' = "error" /\ ~uncaught']_vars

-----------------------------------------------------------------------------
(* The concern map *)

\* C18: when the detection on the loaded still image yields no landmarks the
\* status becomes error and the overlay holds no drawing, and an error status
\* never turns into ready without a new pass setting loading first; while the
\* image has not finished loading no pass is running and the status is not
\* loading, ready or error
C18_NoLandmarksIsError ==
  [][/\ MapModelDone("none") =>
          concernMapStatus' = "error" /\ resultOverlay' = "blank"
     /\ concernMapStatus = "error" => concernMapStatus' # "ready"
     /\ resultImage' # "loaded" =>
          mapPass' = "none" /\ concernMapStatus' = "idle"]_vars

\* a pass on the loaded image ended in error with the landmarker loaded, after
\* an earlier pass had been replaced
C18_Witness ==
  /\ resultImage = "loaded"
  /\ stillLandmarker
  /\ concernMapStatus = "error"
  /\ resultOverlay = "blank"
  /\ overlayFocus = "metric"

-----------------------------------------------------------------------------
(* Object URLs of the capture items *)

\* C20: the object URLs alive are exactly those of the items in the capture
\* list: none is revoked while its item is listed, each is revoked when its
\* item is removed, cleared, reset or the page unmounts, and none is left
\* after the unmount, whenever the encoding of a frame completes
C20_UrlsFollowItems ==
  liveUrls = IF mounted THEN Len(captures) ELSE 0

-----------------------------------------------------------------------------
(* Ranges of the published and of the drawn values (SpecRange) *)

Unit(v, one) == v >= 0 /\ v <= one

\* C21: the score, brightness, sharpness and faceCoverage of every published
\* quality sample lie in [0,1], whatever the pixels and the landmarks of the
\* frame; every metric weight, heatmap alpha, glow alpha and callout alpha of
\* the concern map lies in [0,1], whatever severity and confidence the
\* analysis carries, in or out of [0,100] and [0,1].
C21_ValuesInUnitInterval ==
  /\ frameOut.done =>
       /\ Unit(frameOut.quality.score, 110000)
       /\ Unit(frameOut.quality.brightness, 100)
       /\ Unit(frameOut.quality.sharpness, 100)
       /\ Unit(frameOut.quality.faceCoverage, 100)
  /\ drawOut.done =>
       /\ \A i \in 1..Len(drawOut.weight) : Unit(drawOut.weight[i], 1000)
       /\ \A d \in drawOut.heat \cup drawOut.glow \cup drawOut.callout :
            Unit(d.alpha, 100000)

\* a frame sharper than the divisor with landmarks beyond the frame has been
\* sampled, and a metric of severity 130 and confidence 1.3 with a heatmap has
\* been drawn and labelled
C21_Witness ==
  /\ frameOut.done
  /\ frameIn.variance > SharpDivisor
  /\ frameIn.box.found
  /\ frameIn.box.area > 100
  /\ drawOut.done
  /\ drawIn.metrics[1].severity > 100
  /\ drawIn.metrics[1].confidence > 10
  /\ drawOut.heat # {}
  /\ drawOut.callout # {}

-----------------------------------------------------------------------------
(* Poses of the auto-captured items (SpecPose) *)

\* C22: the pose an auto-capture records is the pose of the quality sample
\* its zero-time validation compared with lastCapturedPose, also when the
\* FaceObservation changed after that sample; and when the item is appended,
\* its pose, if front, left or right, differs from the pose of the item the
\* previous auto-capture appended (lastCapturedPose: every camera capture of
\* SpecPose is an auto-capture).
C22_PosesRotate ==
  [][/\ AutoFired => encodings'[Len(encodings')].pose = scanQuality'.pose
     /\ AutoAppended /\ encodings[1].pose # "unknown" =>
          encodings[1].pose # lastCapturedPoseRef]_vars

-----------------------------------------------------------------------------
(* One capture per countdown (SpecAuto) *)

\* C23: the countdown changes only from null to 3, from 3 to 2 and from 2 to
\* 1 in the step of its timeout, which arms the next timeout, and to null; an
\* auto-capture fires only in the step of the timeout that takes the
\* countdown from 1 to 0, which leaves it null; no rendered state holds a
\* countdown of 0, so no sample and no re-render meets one: each countdown
\* started fires at most once.
C23_OneCapturePerCountdown ==
  [][/\ autoCountdown' # autoCountdown =>
          \/ autoCountdown' = Null
          \/ autoCountdown = Null /\ autoCountdown' = CountdownStart
          \/ /\ autoCountdown \in {2, 3}
             /\ autoCountdown' = autoCountdown - 1
             /\ timerLeft = 0
             /\ timerLeft' = CountdownMs
     /\ AutoFired => autoCountdown = 1 /\ timerLeft = 0 /\ autoCountdown' = Null
     /\ autoCountdown' # 0]_vars

\* an auto-capture has just fired after an earlier capture was recorded, and
\* the sampler goes on publishing samples
C23_Witness ==
  /\ sinceAutoCapture = 0
  /\ Len(encodings) = 1
  /\ encodings[1].auto
  /\ SamplerActive
  /\ videoSrc # NoStream
  /\ lastCapturedPoseRef # "unknown"
  /\ Len(captures) >= 1

-----------------------------------------------------------------------------
(* Progress of the auto-capture (SpecLive) *)

\* the capture surface is up with auto-capture on, fewer than 3 items, and the
\* published sample good with a pose other than lastCapturedPose
Steady == mounted /\ GatesHold

\* lastAutoCaptureAtRef has just been stamped
Stamped == sinceAutoCapture = 0

\* C24: under fair scheduling of the clock, the sampler, the countdown timeout
\* and toBlob, whenever auto-capture stays on with the camera on the scan
\* step, fewer than 3 items and every published sample good with a pose other
\* than lastCapturedPose, an auto-capture eventually fires: the conditions
\* never hold for ever without a further capture being stamped.
C24_EventuallyFires == []<>(~Steady \/ Stamped)

\* the third item has been fired by the countdown while the conditions held
C24_Witness ==
  /\ Steady
  /\ Stamped
  /\ Len(captures) = 2
  /\ Len(encodings) = 1
  /\ encodings[1].auto

-----------------------------------------------------------------------------
(* The active metrics and their overlays (SpecDraw) *)

\* severity x confidence
Product(m) == m.severity * m.confidence

\* C25: with the focus on the top concerns the active metrics are those of
\* the highest severity x confidence: no metric left out has a higher product
\* than an active one; with the focus on one metric the active metrics are
\* exactly that metric.
C25_ActiveAreTopByProduct ==
  drawOut.done =>
    IF drawIn.focus = "top"
      THEN \A i, j \in 1..Len(drawIn.metrics) :
             /\ drawIn.metrics[i].id \in Range(drawOut.active)
             /\ drawIn.metrics[j].id \notin Range(drawOut.active)
             => Product(drawIn.metrics[i]) >= Product(drawIn.metrics[j])
      ELSE drawOut.active = <<drawIn.focus>>

\* C26: an active metric of weight 0 gets neither overlay; one of positive
\* weight gets the heatmap image and no glow when its heatmap loaded, and the
\* glow and no heatmap image otherwise.
C26_HeatmapOrGlow ==
  drawOut.done =>
    \A i \in 1..Len(drawOut.active) :
      LET id     == drawOut.active[i]
          heat   == \E d \in drawOut.heat : d.id = id
          glow   == \E d \in drawOut.glow : d.id = id
          loaded == \E k \in 1..Len(drawIn.metrics) :
                      drawIn.metrics[k].id = id /\ drawIn.metrics[k].heatmap = "loaded"
      IN  IF drawOut.weight[i] = 0 THEN ~heat /\ ~glow
          ELSE IF loaded THEN heat /\ ~glow
          ELSE glow /\ ~heat

-----------------------------------------------------------------------------
(* The model load and the camera (SpecCam) *)

\* C27: while the camera is off and no init() of the live landmarker effect
\* is pending, meshStatus is idle: an init() that was started while the camera
\* was on and finishes after the camera was stopped leaves it idle.
C27_IdleWhenCameraOff ==
  mounted /\ ~cameraOn /\ staleInits = 0 => meshStatus = "idle"

-----------------------------------------------------------------------------
(* Superseded passes of the concern map (SpecMap) *)

\* C28: the step in which a superseded pass resumes, after the model load or
\* after the heatmap images, changes neither concernMapStatus nor the overlay
\* canvas; and while the latest pass is pending the status is the loading it
\* set, whatever superseded passes resumed meanwhile.
C28_SupersededPassIsSilent ==
  [][/\ mounted /\ staleMaps' < staleMaps =>
          /\ concernMapStatus' = concernMapStatus
          /\ resultOverlay' = resultOverlay
     /\ mapPass' # "none" => concernMapStatus' = "loading"]_vars

\* a superseded pass is still suspended while the pass that replaced it has
\* its landmarks and waits for the heatmap images
C28_Witness ==
  /\ mounted
  /\ staleMaps > 0
  /\ mapPass = "heat"
  /\ concernMapStatus = "loading"

-----------------------------------------------------------------------------
(* The stored history (SpecStore) *)

\* the well-formed items of a file, as entries
Incoming(raw) ==
  {[id |-> raw[i].id, createdAt |-> raw[i].createdAt] : i \in {k \in 1..Len(raw) : raw[k].response}}

\* the entries a merge chooses from
Candidates(raw) == {history[j] : j \in 1..Len(history)} \cup Incoming(raw)

\* C29: starting from an empty store, after every saveToHistory, importUserData
\* and clearHistory call the history has at most 25 entries and no two of one
\* id; saveToHistory puts the saved entry first and leaves no other entry of its
\* id; every entry importUserData stores is the newest of its id among the
\* stored and the imported ones, and no id is lost while they fit in
C29_HistoryKept ==
  [][/\ Len(history') <= HistoryCap
     /\ \A i, j \in 1..Len(history') : history'[i].id = history'[j].id => i = j
     /\ \A entry \in SavedEntries :
          SaveToHistory(entry) =>
            /\ history'[1] = entry
            /\ \A j \in 2..Len(history') : /\ history'[j].id # entry.id
                                            /\ \E k \in 1..Len(history) : history[k] = history'[j]
     /\ \A raw \in Files :
          ImportUserData(raw) =>
            /\ \A k \in 1..Len(history') :
                 /\ history'[k] \in Candidates(raw)
                 /\ \A c \in Candidates(raw) :
                      c.id = history'[k].id => Time(c) <= Time(history'[k])
            /\ Cardinality({c.id : c \in Candidates(raw)}) <= HistoryCap =>
                 \A c \in Candidates(raw) : \E k \in 1..Len(history') : history'[k].id = c.id
    ]_vars

\* the store is full after every analysis was saved, and the shared entry is
\* first with the time of an imported file
C29_Witness ==
  /\ Len(history) = HistoryCap
  /\ history[1] = [id |-> Shared, createdAt |-> 3]
  /\ history[2].id = MaxIds
-----------------------------------------------------------------------------
(* The outcomes of runAnalysis (SpecRun) *)

\* the run succeeded: a result, no error, started then completed
Succeeded ==
  /\ run.result # NoResult
  /\ ~run.error
  /\ run.embedded => run.events = <<"analysis_started", "analysis_completed">>

\* the run failed: an error, no result, started then failed
Failed ==
  /\ run.error
  /\ run.result = NoResult
  /\ run.embedded => run.events = <<"analysis_started", "analysis_failed">>

\* C30: every run of runAnalysis ends with loading false, step 3 and exactly
\* one outcome: a result without error and the events started, completed, or an
\* error without result and the events started, failed; also when the
\* thumbnail or the saving to the history fails after the response arrived
C30_OneOutcome ==
  run.phase = "done" =>
    /\ ~run.loading
    /\ run.step = 3
    /\ Succeeded \/ Failed
====
